---- MODULE Spec2Model ----
(***************************************************************************)
(* State-machine model of the LabJack streaming drivers:                   *)
(*   StreamIn   (src/_stream_in.py)      pipelined: loop thread + worker   *)
(*   StreamRead (src/_steam_read.py)     synchronous                       *)
(*   Control    (src/LabJack_control.py) LabJackDevice.stream, synchronous *)
(* The device link (ljm) is an external collaborator: each call on it      *)
(* succeeds or fails nondeterministically.                                 *)
(***************************************************************************)
EXTENDS Integers, Sequences, FiniteSets, TLC

(* ------------------------------ bounds --------------------------------- *)
\* largest planned number of reads (numReads) explored
MaxReads == 2
\* largest number of NO_SCANS_RETURNED responses in one stream operation
MaxNoScans == 2
\* largest number of scanned channels
MaxChannels == 2

(* ------------------------- program constants --------------------------- *)
\* the value the device returns for a skipped sample
Sentinel == -9999
\* encoding of np.nan: an integer that no device sample takes
NaN == Sentinel - 1

\* sample values a read may deliver: a real reading or the sentinel
Values == {1, Sentinel}
Kinds == {"StreamIn", "StreamRead", "Control"}

(* --------------------- Python exception objects ------------------------ *)
\* An exception is <<class, origin, __cause__, __context__>>; origin is the
\* device-link call that raised it ("" for an error raised by the drivers).
NoExc == <<>>

\* `raise cls(...)` while `handling` is the exception being handled
Raise(cls, origin, handling) == <<cls, origin, NoExc, handling>>

\* `raise cls(...) from cause` while `handling` is the exception being handled
RaiseFrom(cls, cause, handling) == <<cls, "", cause, handling>>

ExcClass(e) == e[1]
ExcOrigin(e) == e[2]
ExcCause(e) == e[3]
ExcContext(e) == e[4]

\* class of the error the link raises for a failure outcome
LinkErrorClass(o) == IF o = "ljm" THEN "LJMError" ELSE "Exception"

VARIABLES
  kind,          \* which driver runs the operation
  do_trigger,    \* triggering requested
  num_channels,  \* len(scan_channels)
  numReads,      \* planned number of reads
  pc,            \* position of the loop thread
  step,          \* index of the next call of the configure / arm sequence
  calls,         \* device-link calls issued so far, in order
  ir,            \* loop counter of successful reads
  noScans,       \* NO_SCANS_RETURNED responses so far
  readlog,       \* raw sample lists returned by the successful reads, in order
  queue,         \* StreamIn._queue: hand-offs not yet taken by the worker
  unfinished,    \* queue.Queue's unfinished_tasks counter
  wpc,           \* position of the worker thread
  witem,         \* hand-off the worker holds
  total_a_data,  \* the accumulator
  skipped,       \* skipped-sample counter
  pending,       \* exception propagating through the finally block
  err,           \* exception raised to the caller
  handle,        \* the device object's handle attribute (0 = None)
  linkOpen,      \* whether the link-level connection of the handle is open
  records,       \* the result (<<>> while not set)
  duration_s,        \* requested duration, a fraction <<numerator, denominator>>
  sampling_rate_Hz,  \* requested total rate
  scans_per_read,    \* the scans-per-read argument: <<>> for None, else <<n>>
  plan,              \* what the constructor computed from them (<<>> before)
  ppc,               \* position of the constructor around the planning
  tpc,               \* position of each thread that calls stream_in
  tir,               \* successful reads of each such thread
  tcalls,            \* stream calls of those threads: <<thread, call, outcome>>
  scans_read,        \* StreamIn._scans: scans per channel the reads delivered
  trigger_mode,      \* the trigger mode requested
  trigger_edge,      \* the trigger edge requested
  trigger_timeout_s, \* the timeout argument: <<>> for None, else a fraction
  trigger_timeout,   \* the timeout the constructor stored (<<>> before)
  apc,               \* position of a run that arms the trigger
  astep,             \* index of the next call of that run
  alog,              \* its link calls: <<call, what is written, outcome>>
  open_handles,      \* handles the link has open
  oplog,             \* operations on the device object, with their link calls
  loop_at,           \* what the thread of the caller's event loop executes
  ready,             \* callbacks scheduled on that loop, in order
  spc,               \* position of StreamIn._stream_in
  future,            \* the future of run_coroutine_threadsafe
  coro               \* the coroutine object of _run_stream_in

vars == <<kind, do_trigger, num_channels, numReads, pc, step, calls, ir, noScans,
          readlog, queue, unfinished, wpc, witem, total_a_data, skipped,
          pending, err, handle, linkOpen, records, duration_s,
          sampling_rate_Hz, scans_per_read, plan, ppc, tpc, tir, tcalls,
          scans_read, trigger_mode, trigger_edge, trigger_timeout_s,
          trigger_timeout, apc, astep, alog, open_handles, oplog, loop_at,
          ready, spc, future, coro>>

\* the variables of the planning and of the concurrent callers
plan_vars == <<duration_s, sampling_rate_Hz, scans_per_read, plan, ppc,
               scans_read>>
thread_vars == <<tpc, tir, tcalls>>
\* the variables of the arming and of the device object's connection
arm_vars == <<trigger_mode, trigger_edge, trigger_timeout_s, trigger_timeout,
              apc, astep, alog>>
conn_vars == <<open_handles, oplog>>
\* the variables of the calling context of StreamIn._stream_in
loop_vars == <<loop_at, ready, spc, future, coro>>
Threads == {"A", "B"}

(* ------------------- the call sequences before start ------------------- *)
\* Each entry is <<link call, phase, what is written>>.

\* StreamIn._configure / StreamRead._configure: one configure_register call
ConfigureSeq ==
  << <<"eWriteNames", "configure", "baseline">> >>

\* StreamIn._configure_trigger / StreamRead._configure_trigger
ConfigureTriggerSeq ==
  << <<"writeLibraryConfigS", "arm", "library">>,
     <<"eWriteNames", "arm", "EF_ENABLE=0">>,
     <<"nameToAddress", "arm", "address">>,
     <<"eWriteNames", "arm", "trigger registers">>,
     <<"eWriteNames", "arm", "EF_ENABLE=1">> >>

\* LabJack_control stream(): the baseline writes
ControlConfigureSeq ==
  << <<"eWriteName", "configure", "STREAM_TRIGGER_INDEX=0">>,
     <<"eWriteName", "configure", "STREAM_CLOCK_SOURCE=0">>,
     <<"eWriteNames", "configure", "baseline">> >>

\* LabJack_control _configure_triggered_stream (default mode ConditionalReset)
\* followed by _configure_ljm_for_triggered_stream
ControlTriggerSeq ==
  << <<"nameToAddress", "arm", "address">>,
     <<"eWriteName", "arm", "STREAM_TRIGGER_INDEX">>,
     <<"eWriteName", "arm", "EF_ENABLE=0">>,
     <<"eWriteName", "arm", "EF_INDEX=3">>,
     <<"eWriteName", "arm", "EF_INDEX=4">>,
     <<"eWriteName", "arm", "EF_INDEX">>,
     <<"eWriteName", "arm", "EF_CONFIG_A">>,
     <<"eWriteName", "arm", "EF_ENABLE=1">>,
     <<"writeLibraryConfigS", "arm", "STREAM_SCANS_RETURN">>,
     <<"writeLibraryConfigS", "arm", "STREAM_RECEIVE_TIMEOUT_MS">> >>

\* faulty variant: the trigger is armed whether or not triggering was requested
PreSeqAlwaysArms(k, trig) ==
  IF k = "Control"
  THEN << <<"namesToAddresses", "configure", "scan list">> >>
       \o ControlConfigureSeq \o ControlTriggerSeq
  ELSE ConfigureSeq \o ConfigureTriggerSeq
       \o << <<"namesToAddresses", "start", "scan list">> >>

\* the calls a driver issues before eStreamStart, in program order
PreSeq(k, trig) ==
  IF k = "Control"
  THEN << <<"namesToAddresses", "configure", "scan list">> >>
       \o ControlConfigureSeq
       \o (IF trig THEN ControlTriggerSeq ELSE <<>>)
  ELSE ConfigureSeq
       \o (IF trig THEN ConfigureTriggerSeq ELSE <<>>)
       \o << <<"namesToAddresses", "start", "scan list">> >>

\* The class that wraps a failure of link call c in driver k ("" = the link's
\* error propagates as raised).
WrapClass(k, c) ==
  IF k = "Control"
  THEN (IF c = "eStreamStop" THEN "LabJackStreamingError" ELSE "")
  ELSE CASE c = "eWriteNames" -> "LabJackRegisterConfigurationError"
         [] c = "writeLibraryConfigS" -> "LabJackLibraryConfigurationError"
         [] c \in {"eStreamStart", "eStreamRead", "eStreamStop"} ->
              "LabJackStreamReadError"
         [] OTHER -> ""

\* faulty variant: the wrapper is raised without the link's error attached
WrappedDropsCause(k, c, e) ==
  IF WrapClass(k, c) = "" THEN e ELSE Raise(WrapClass(k, c), "", NoExc)

\* the exception that leaves the try statement around link call c when the
\* link raised e there
Wrapped(k, c, e) ==
  IF WrapClass(k, c) = "" THEN e ELSE RaiseFrom(WrapClass(k, c), e, e)

(* ------------------------------- Init ---------------------------------- *)
\* one stream operation of one caller with a plan already made: the planning
\* and the second caller are not part of the run
PlanOff ==
  /\ duration_s = <<>>
  /\ sampling_rate_Hz = 0
  /\ scans_per_read = <<>>
  /\ plan = <<>>
  /\ ppc = "off"
  /\ scans_read = 0

ThreadsOff ==
  /\ tpc = [t \in Threads |-> "off"]
  /\ tir = [t \in Threads |-> 0]
  /\ tcalls = <<>>

\* the arming is followed call by call only in its own runs
ArmOff ==
  /\ trigger_mode = ""
  /\ trigger_edge = ""
  /\ trigger_timeout_s = <<>>
  /\ trigger_timeout = <<>>
  /\ apc = "off"
  /\ astep = 1
  /\ alog = <<>>

\* the device object stays connected during a stream operation
ConnOff ==
  /\ open_handles = {1}
  /\ oplog = <<>>

\* how _stream_in gets the coroutine run is followed only in its own runs
LoopOff ==
  /\ loop_at = "none"
  /\ ready = <<>>
  /\ spc = "off"
  /\ future = "none"
  /\ coro = "none"

Init ==
  /\ PlanOff
  /\ ThreadsOff
  /\ LoopOff
  /\ ArmOff
  /\ ConnOff
  /\ kind \in Kinds
  /\ do_trigger \in BOOLEAN
  /\ num_channels \in 1..MaxChannels
  /\ numReads \in 1..MaxReads
  /\ pc = "pre"
  /\ step = 1
  /\ calls = <<>>
  /\ ir = 0
  /\ noScans = 0
  /\ readlog = <<>>
  /\ queue = <<>>
  /\ unfinished = 0
  /\ wpc = "none"
  /\ witem = <<>>
  /\ total_a_data = <<>>
  /\ skipped = 0
  /\ pending = NoExc
  /\ err = NoExc
  /\ handle = 1
  /\ linkOpen = TRUE
  /\ records = <<>>

\* the link call c = <<call, phase, what>> is issued and answers o
Issue(c, o) == calls' = Append(calls, <<c[1], c[2], c[3], o>>)

\* the operation fails with exception e
Fail(e) ==
  /\ pc' = "failed"
  /\ err' = e

(* ----------------------- configure, arm, resolve ----------------------- *)
\* One call of the sequence before start: it succeeds, or the link raises an
\* LJMError or another exception and the operation ends.
PreCall ==
  /\ pc = "pre"
  /\ step <= Len(PreSeq(kind, do_trigger))
  /\ LET c == PreSeq(kind, do_trigger)[step][1] IN
     \E o \in {"ok", "ljm", "other"} :
       /\ Issue(PreSeq(kind, do_trigger)[step], o)
       /\ IF o = "ok"
          THEN /\ step' = step + 1
               /\ pc' = IF step = Len(PreSeq(kind, do_trigger))
                         THEN "start" ELSE "pre"
               /\ err' = err
          ELSE /\ Fail(Wrapped(kind, c, Raise(LinkErrorClass(o), c, NoExc)))
               /\ step' = step
  /\ UNCHANGED <<plan_vars, thread_vars, arm_vars, conn_vars, loop_vars, kind, do_trigger, num_channels, numReads, ir, noScans, readlog,
                 queue, unfinished, wpc, witem, total_a_data, skipped, pending,
                 handle, linkOpen, records>>

(* ------------------------------ start ---------------------------------- *)
\* faulty variant: a failed eStreamStart is not noticed
StartStreamIgnoresFailure ==
  /\ pc = "start"
  /\ \E o \in {"ok", "ljm", "other"} :
       /\ Issue(<<"eStreamStart", "start", "">>, o)
       /\ pc' = "read"
       /\ wpc' = IF kind = "StreamIn" THEN "get" ELSE wpc
       /\ err' = err
  /\ UNCHANGED <<plan_vars, thread_vars, arm_vars, conn_vars, loop_vars, kind, do_trigger, num_channels, numReads, step, ir, noScans,
                 readlog, queue, unfinished, witem, total_a_data, skipped,
                 pending, handle, linkOpen, records>>

\* eStreamStart. On success StreamIn resets its accumulator, creates the
\* queue and starts the worker thread before the read loop.
StartStream ==
  /\ pc = "start"
  /\ \E o \in {"ok", "ljm", "other"} :
       /\ Issue(<<"eStreamStart", "start", "">>, o)
       /\ IF o = "ok"
          THEN /\ pc' = "read"
               /\ wpc' = IF kind = "StreamIn" THEN "get" ELSE wpc
               /\ err' = err
          ELSE /\ Fail(Wrapped(kind, "eStreamStart",
                               Raise(LinkErrorClass(o), "eStreamStart", NoExc)))
               /\ wpc' = wpc
  /\ UNCHANGED <<plan_vars, thread_vars, arm_vars, conn_vars, loop_vars, kind, do_trigger, num_channels, numReads, step, ir, noScans,
                 readlog, queue, unfinished, witem, total_a_data, skipped,
                 pending, handle, linkOpen, records>>

(* --------------------------- sample handling --------------------------- *)
RECURSIVE CountSentinel(_)
\* number of samples of d equal to the sentinel
CountSentinel(d) ==
  IF d = <<>> THEN 0
  ELSE (IF Head(d) = Sentinel THEN 1 ELSE 0) + CountSentinel(Tail(d))

\* faulty variant: only a sentinel at the head of a read is replaced
ArrayToNaNHeadOnly(d) ==
  [i \in 1..Len(d) |-> IF i = 1 /\ d[i] = Sentinel THEN NaN ELSE d[i]]

\* StreamIn._stack_stream_reads: on a numpy array, a_data[a_data == -9999.0]
\* = np.nan replaces every sentinel
ArrayToNaN(d) == [i \in 1..Len(d) |-> IF d[i] = Sentinel THEN NaN ELSE d[i]]

\* StreamRead._stream: on a Python list, a_data == -9999 is the single value
\* False, so a_data[False] = np.nan assigns element 0 of the list
ListToNaN(d) == [i \in 1..Len(d) |-> IF i = 1 THEN NaN ELSE d[i]]

\* where the loop thread goes once the while loop has ended normally
AfterLoop(k) == IF k = "Control" THEN "reassemble" ELSE "stop"

(* ------------------------------ read loop ------------------------------ *)
\* the sample lists one read may return for n channels: one scan, in which
\* the first and the last sample may be real or skipped
ReadSamples(n) ==
  {d \in [1..n -> Values] : \A i \in 2..(n - 1) : d[i] # Sentinel}

\* faulty variant: the loop thread stacks the samples itself
ReadDataStacksInline ==
  /\ pc = "read"
  /\ ir < numReads
  /\ \E d \in ReadSamples(num_channels) :
       /\ readlog' = Append(readlog, d)
       /\ skipped' = skipped + CountSentinel(d)
       /\ total_a_data' = total_a_data \o ArrayToNaN(d)
  /\ Issue(<<"eStreamRead", "read", "">>, "ok")
  /\ ir' = ir + 1
  /\ pc' = IF ir + 1 < numReads THEN "read" ELSE AfterLoop(kind)
  /\ UNCHANGED <<plan_vars, thread_vars, arm_vars, conn_vars, loop_vars, kind, do_trigger, num_channels, numReads, step, noScans, wpc,
                 witem, pending, err, handle, linkOpen, records, queue,
                 unfinished>>

\* One eStreamRead that returns the samples d.
ReadData ==
  /\ pc = "read"
  /\ ir < numReads
  /\ \E d \in ReadSamples(num_channels) :
       /\ readlog' = Append(readlog, d)
       /\ CASE kind = "StreamIn" ->
                 /\ queue' = Append(queue, <<ir, d>>)
                 /\ unfinished' = unfinished + 1
                 /\ UNCHANGED <<total_a_data, skipped>>
            [] kind = "StreamRead" ->
                 /\ skipped' = skipped + CountSentinel(d)
                 /\ total_a_data' = total_a_data \o ListToNaN(d)
                 /\ UNCHANGED <<queue, unfinished>>
            [] kind = "Control" ->
                 /\ total_a_data' = total_a_data \o d
                 /\ skipped' = skipped + CountSentinel(d)
                 /\ UNCHANGED <<queue, unfinished>>
  /\ Issue(<<"eStreamRead", "read", "">>, "ok")
  /\ ir' = ir + 1
  /\ pc' = IF ir + 1 < numReads THEN "read" ELSE AfterLoop(kind)
  /\ UNCHANGED <<plan_vars, thread_vars, arm_vars, conn_vars, loop_vars, kind, do_trigger, num_channels, numReads, step, noScans, wpc,
                 witem, pending, err, handle, linkOpen, records>>

\* faulty variant: a no-scans response moves the loop counter on
ReadNoScansCounted ==
  /\ pc = "read"
  /\ ir < numReads
  /\ noScans < MaxNoScans
  /\ Issue(<<"eStreamRead", "read", "">>, "noscans")
  /\ noScans' = noScans + 1
  /\ ir' = ir + 1
  /\ pc' = IF ir + 1 < numReads THEN "read" ELSE AfterLoop(kind)
  /\ UNCHANGED <<plan_vars, thread_vars, arm_vars, conn_vars, loop_vars, kind, do_trigger, num_channels, numReads, step, readlog,
                 queue, unfinished, wpc, witem, total_a_data, skipped, pending,
                 err, handle, linkOpen, records>>

\* One eStreamRead that raises LJMError with code NO_SCANS_RETURNED: continue.
ReadNoScans ==
  /\ pc = "read"
  /\ ir < numReads
  /\ noScans < MaxNoScans
  /\ Issue(<<"eStreamRead", "read", "">>, "noscans")
  /\ noScans' = noScans + 1
  /\ UNCHANGED <<plan_vars, thread_vars, arm_vars, conn_vars, loop_vars, kind, do_trigger, num_channels, numReads, pc, step, ir, readlog,
                 queue, unfinished, wpc, witem, total_a_data, skipped, pending,
                 err, handle, linkOpen, records>>

\* faulty variant: the read loop without the enclosing try/finally
ReadRaisedNoFinally(k, e) ==
  /\ Fail(e)
  /\ pending' = pending

\* faulty variant: the failure is swallowed and the loop goes on
ReadRaisedContinue(k, e) ==
  /\ pc' = "read"
  /\ pending' = pending
  /\ err' = err

\* faulty variant: the failure is swallowed and the driver goes on to stop
\* and reassemble what it has
ReadRaisedSwallowed(k, e) ==
  /\ pc' = "stop"
  /\ pending' = pending
  /\ err' = err

\* where a read that raised e leaves the driver: StreamIn and StreamRead
\* enter the finally block with the exception propagating; LabJack_control's
\* loop has no enclosing try, the exception leaves stream()
ReadRaised(k, e) ==
  IF k = "Control"
  THEN /\ Fail(e)
       /\ pending' = pending
  ELSE /\ pc' = "stop"
       /\ pending' = e
       /\ err' = err

\* One eStreamRead that raises another LJMError, another Exception, or is
\* interrupted by the caller (KeyboardInterrupt, which no handler catches).
ReadFail ==
  /\ pc = "read"
  /\ ir < numReads
  /\ \E o \in {"ljm", "other", "abort"} :
       /\ Issue(<<"eStreamRead", "read", "">>, o)
       /\ IF o = "abort"
          THEN ReadRaised(kind, Raise("KeyboardInterrupt", "eStreamRead", NoExc))
          ELSE ReadRaised(kind, Wrapped(kind, "eStreamRead",
                            Raise(LinkErrorClass(o), "eStreamRead", NoExc)))
  /\ UNCHANGED <<plan_vars, thread_vars, arm_vars, conn_vars, loop_vars, kind, do_trigger, num_channels, numReads, step, ir, noScans,
                 readlog, queue, unfinished, wpc, witem, total_a_data, skipped,
                 handle, linkOpen, records>>

(* ------------------------------- stop ---------------------------------- *)
\* where the loop thread goes after a stop that succeeded with no exception
\* propagating
AfterStop(k) ==
  CASE k = "StreamIn" -> "join"
    [] k = "StreamRead" -> "reassemble"
    [] OTHER -> "done"

\* what a failed eStreamStop that raised e leads to: StreamIn and StreamRead
\* raise their wrapper from it; LabJack_control first closes the handle
StopRaised(k, e) ==
  IF k = "Control"
  THEN /\ pc' = "close"
       /\ pending' = e
       /\ err' = err
  ELSE /\ Fail(Wrapped(k, "eStreamStop", e))
       /\ pending' = pending

\* faulty variant: the stop is issued after the read error was dropped
StopErrorNoContext(o, p) == Raise(LinkErrorClass(o), "eStreamStop", NoExc)

\* the exception a failed eStreamStop raises while p is propagating
StopError(o, p) == Raise(LinkErrorClass(o), "eStreamStop", p)

\* eStreamStop: in the finally block of StreamIn and StreamRead, after the
\* result is built in LabJack_control. An exception raised here has the
\* propagating exception as its __context__.
StopStream ==
  /\ pc = "stop"
  /\ \E o \in {"ok", "ljm", "other"} :
       /\ Issue(<<"eStreamStop", "stop", "">>, o)
       /\ IF o = "ok"
          THEN /\ IF pending # NoExc
                  THEN Fail(pending)
                  ELSE pc' = AfterStop(kind) /\ err' = err
               /\ pending' = pending
          ELSE StopRaised(kind, StopError(o, pending))
  /\ UNCHANGED <<plan_vars, thread_vars, arm_vars, conn_vars, loop_vars, kind, do_trigger, num_channels, numReads, step, ir, noScans,
                 readlog, queue, unfinished, wpc, witem, total_a_data, skipped,
                 handle, linkOpen, records>>

\* LabJack_control: ljm.close(handle) in the handler of a failed stop, then
\* the LabJackStreamingError; self.handle is not reset.
CloseAfterStopFailure ==
  /\ pc = "close"
  /\ \E o \in {"ok", "ljm"} :
       /\ Issue(<<"close", "stop", "">>, o)
       /\ IF o = "ok"
          THEN /\ linkOpen' = FALSE
               /\ Fail(Wrapped(kind, "eStreamStop", pending))
          ELSE /\ linkOpen' = linkOpen
               /\ Fail(Raise(LinkErrorClass(o), "close", pending))
  /\ UNCHANGED <<plan_vars, thread_vars, arm_vars, conn_vars, loop_vars, kind, do_trigger, num_channels, numReads, step, ir, noScans,
                 readlog, queue, unfinished, wpc, witem, total_a_data, skipped,
                 pending, handle, records>>

(* --------------------------- StreamIn worker --------------------------- *)
\* faulty variant: the newest hand-off is taken first
QueueGetLast(q) == <<q[Len(q)], SubSeq(q, 1, Len(q) - 1)>>

\* queue.Queue.get on a non-empty queue: <<item taken, queue left>>
QueueGet(q) == <<Head(q), Tail(q)>>

\* item = self._queue.get(); None (<<>>) is the exit signal
WorkerGet ==
  /\ wpc = "get"
  /\ queue # <<>>
  /\ queue' = QueueGet(queue)[2]
  /\ IF QueueGet(queue)[1] = <<>>
     THEN wpc' = "exited" /\ witem' = witem
     ELSE wpc' = "stack" /\ witem' = QueueGet(queue)[1]
  /\ UNCHANGED <<plan_vars, thread_vars, arm_vars, conn_vars, loop_vars, kind, do_trigger, num_channels, numReads, pc, step, calls, ir,
                 noScans, readlog, unfinished, total_a_data, skipped, pending,
                 err, handle, linkOpen, records>>

\* asyncio.run(self._stack_stream_reads(ir, timestamp, ret))
WorkerStack ==
  /\ wpc = "stack"
  /\ skipped' = skipped + CountSentinel(witem[2])
  /\ total_a_data' = total_a_data \o ArrayToNaN(witem[2])
  /\ wpc' = "task_done"
  /\ UNCHANGED <<plan_vars, thread_vars, arm_vars, conn_vars, loop_vars, kind, do_trigger, num_channels, numReads, pc, step, calls, ir,
                 noScans, readlog, queue, unfinished, witem, pending, err,
                 handle, linkOpen, records>>

\* faulty variant: the worker goes back to the queue without task_done()
WorkerTaskDoneForgets ==
  /\ wpc = "task_done"
  /\ wpc' = "get"
  /\ witem' = <<>>
  /\ UNCHANGED <<plan_vars, thread_vars, arm_vars, conn_vars, loop_vars, kind, do_trigger, num_channels, numReads, pc, step, calls, ir,
                 noScans, readlog, queue, unfinished, total_a_data, skipped,
                 pending, err, handle, linkOpen, records>>

\* self._queue.task_done()
WorkerTaskDone ==
  /\ wpc = "task_done"
  /\ unfinished' = unfinished - 1
  /\ wpc' = "get"
  /\ witem' = <<>>
  /\ UNCHANGED <<plan_vars, thread_vars, arm_vars, conn_vars, loop_vars, kind, do_trigger, num_channels, numReads, pc, step, calls, ir,
                 noScans, readlog, queue, total_a_data, skipped, pending, err,
                 handle, linkOpen, records>>

(* --------------------- StreamIn after the stop ------------------------- *)
\* faulty variant: no wait for the worker
QueueJoinNoWait ==
  /\ pc = "join"
  /\ pc' = "put_none"
  /\ UNCHANGED <<plan_vars, thread_vars, arm_vars, conn_vars, loop_vars, kind, do_trigger, num_channels, numReads, step, calls, ir,
                 noScans, readlog, queue, unfinished, wpc, witem, total_a_data,
                 skipped, pending, err, handle, linkOpen, records>>

\* self._queue.join(): blocks until unfinished_tasks is 0
QueueJoin ==
  /\ pc = "join"
  /\ unfinished = 0
  /\ pc' = "put_none"
  /\ UNCHANGED <<plan_vars, thread_vars, arm_vars, conn_vars, loop_vars, kind, do_trigger, num_channels, numReads, step, calls, ir,
                 noScans, readlog, queue, unfinished, wpc, witem, total_a_data,
                 skipped, pending, err, handle, linkOpen, records>>

\* self._queue.put(None)
PutNone ==
  /\ pc = "put_none"
  /\ queue' = Append(queue, <<>>)
  /\ unfinished' = unfinished + 1
  /\ pc' = "thread_join"
  /\ UNCHANGED <<plan_vars, thread_vars, arm_vars, conn_vars, loop_vars, kind, do_trigger, num_channels, numReads, step, calls, ir,
                 noScans, readlog, wpc, witem, total_a_data, skipped, pending,
                 err, handle, linkOpen, records>>

\* worker_thread.join(): blocks until the worker has left its loop
ThreadJoin ==
  /\ pc = "thread_join"
  /\ wpc = "exited"
  /\ pc' = "reassemble"
  /\ UNCHANGED <<plan_vars, thread_vars, arm_vars, conn_vars, loop_vars, kind, do_trigger, num_channels, numReads, step, calls, ir,
                 noScans, readlog, queue, unfinished, wpc, witem, total_a_data,
                 skipped, pending, err, handle, linkOpen, records>>

(* ----------------------------- reassembly ------------------------------ *)
\* LabJackaData2chData: channel c (1-based) gets the samples at flat
\* positions c, c + n, c + 2n, ...
LabJackaData2chData(flat, n) ==
  [c \in 1..n |-> [k \in 1..(Len(flat) \div n) |-> flat[(k - 1) * n + c]]]

\* faulty variant: the accumulator is cut into one contiguous block per
\* channel
ReassembleByBlocks ==
  /\ pc = "reassemble"
  /\ records' =
       [c \in 1..num_channels |->
          [k \in 1..(Len(total_a_data) \div num_channels) |->
             total_a_data[(c - 1) * (Len(total_a_data) \div num_channels) + k]]]
  /\ pc' = IF kind = "Control" THEN "stop" ELSE "done"
  /\ UNCHANGED <<plan_vars, thread_vars, arm_vars, conn_vars, loop_vars, kind, do_trigger, num_channels, numReads, step, calls, ir,
                 noScans, readlog, queue, unfinished, wpc, witem, total_a_data,
                 skipped, pending, err, handle, linkOpen>>

\* the result is built from the accumulator and stored
Reassemble ==
  /\ pc = "reassemble"
  /\ records' = LabJackaData2chData(total_a_data, num_channels)
  /\ pc' = IF kind = "Control" THEN "stop" ELSE "done"
  /\ UNCHANGED <<plan_vars, thread_vars, arm_vars, conn_vars, loop_vars, kind, do_trigger, num_channels, numReads, step, calls, ir,
                 noScans, readlog, queue, unfinished, wpc, witem, total_a_data,
                 skipped, pending, err, handle, linkOpen>>

(* --------------------------- specification ----------------------------- *)
Next ==
  \/ PreCall
  \/ StartStream
  \/ ReadData
  \/ ReadNoScans
  \/ ReadFail
  \/ StopStream
  \/ CloseAfterStopFailure
  \/ WorkerGet
  \/ WorkerStack
  \/ WorkerTaskDone
  \/ QueueJoin
  \/ PutNone
  \/ ThreadJoin
  \/ Reassemble

Spec == Init /\ [][Next]_vars

\* The same program under fair scheduling: the thread that runs the
\* operation and the worker thread are each scheduled again and again, and a
\* blocking link call returns.
LoopThread ==
  \/ PreCall
  \/ StartStream
  \/ ReadData
  \/ ReadNoScans
  \/ ReadFail
  \/ StopStream
  \/ CloseAfterStopFailure
  \/ QueueJoin
  \/ PutNone
  \/ ThreadJoin
  \/ Reassemble

Worker ==
  \/ WorkerGet
  \/ WorkerStack
  \/ WorkerTaskDone

SpecLive == Init /\ [][Next]_vars /\ WF_vars(LoopThread) /\ WF_vars(Worker)

(* ------------------- the caller of StreamIn._stream_in ----------------- *)
\* _stream_in is called at the end of the constructor of StreamIn, in the
\* thread of the caller.  That thread either runs no event loop, or it is the
\* thread of an event loop that is executing the callback ("caller") in
\* which the StreamIn is constructed.  An event loop executes one callback
\* at a time in its thread and takes the next one from its ready queue when
\* that callback has returned.

LoopInit ==
  /\ kind = "StreamIn"
  /\ do_trigger = FALSE
  /\ num_channels \in 1..MaxChannels
  /\ numReads \in 1..MaxReads
  /\ pc = "start"
  /\ step = 1
  /\ calls = <<>>
  /\ ir = 0
  /\ noScans = 0
  /\ readlog = <<>>
  /\ queue = <<>>
  /\ unfinished = 0
  /\ wpc = "none"
  /\ witem = <<>>
  /\ total_a_data = <<>>
  /\ skipped = 0
  /\ pending = NoExc
  /\ err = NoExc
  /\ handle = 1
  /\ linkOpen = TRUE
  /\ records = <<>>
  /\ PlanOff
  /\ ThreadsOff
  /\ ArmOff
  /\ ConnOff
  /\ loop_at \in {"none", "idle"}
  /\ ready = IF loop_at = "idle" THEN <<"caller">> ELSE <<>>
  /\ spc = IF loop_at = "idle" THEN "off" ELSE "call"
  /\ future = "none"
  /\ coro = "none"

loop_rest == <<kind, do_trigger, num_channels, numReads, pc, step, calls, ir,
               noScans, readlog, queue, unfinished, wpc, witem, total_a_data,
               skipped, pending, err, handle, linkOpen, records, plan_vars,
               thread_vars, arm_vars, conn_vars>>

\* one iteration of the event loop: its thread takes the next scheduled
\* callback and executes it; the caller's callback reaches _stream_in, the
\* callback of run_coroutine_threadsafe starts the coroutine
LoopRunOnce ==
  /\ loop_at = "idle"
  /\ ready # <<>>
  /\ ready' = Tail(ready)
  /\ loop_at' = Head(ready)
  /\ spc' = IF Head(ready) = "caller" THEN "call" ELSE spc
  /\ coro' = IF Head(ready) = "coro" THEN "running" ELSE coro
  /\ UNCHANGED <<future, loop_rest>>

\* _stream_in: asyncio.get_running_loop() returns the loop exactly when the
\* calling thread is executing a callback of a running loop; then the
\* coroutine is scheduled on that loop and the thread goes on to
\* future.result().  Otherwise asyncio.run runs the coroutine in the calling
\* thread.
StreamInCall ==
  /\ spc = "call"
  /\ IF loop_at = "caller"
     THEN /\ ready' = Append(ready, "coro")
          /\ coro' = "scheduled"
          /\ future' = "pending"
          /\ spc' = "result"
     ELSE /\ coro' = "running"
          /\ spc' = "run"
          /\ UNCHANGED <<ready, future>>
  /\ UNCHANGED <<loop_at, loop_rest>>

\* _run_stream_in has returned or raised: the coroutine is finished, a
\* future wrapping it is done, a loop thread that executed it is free again
CoroEnd ==
  /\ coro = "running"
  /\ pc \in {"done", "failed"}
  /\ coro' = "finished"
  /\ future' = IF future = "pending" THEN "done" ELSE future
  /\ loop_at' = IF loop_at = "coro" THEN "idle" ELSE loop_at
  /\ UNCHANGED <<ready, spc, loop_rest>>

\* asyncio.run returns (or raises) once its coroutine is finished;
\* future.result(), called without a timeout, once the future is done
StreamInReturn ==
  /\ spc \in {"run", "result"}
  /\ IF spc = "run" THEN coro = "finished" ELSE future = "done"
  /\ spc' = "returned"
  /\ UNCHANGED <<loop_at, ready, future, coro, loop_rest>>

\* the steps of the thread that called _stream_in and of the event loop; the
\* steps of _run_stream_in are taken while the coroutine is being executed
LoopCaller ==
  \/ LoopRunOnce
  \/ StreamInCall
  \/ coro = "running" /\ StartStream
  \/ coro = "running" /\ ReadData
  \/ coro = "running" /\ ReadNoScans
  \/ coro = "running" /\ ReadFail
  \/ coro = "running" /\ StopStream
  \/ coro = "running" /\ QueueJoin
  \/ coro = "running" /\ PutNone
  \/ coro = "running" /\ ThreadJoin
  \/ coro = "running" /\ Reassemble
  \/ CoroEnd
  \/ StreamInReturn

LoopNext ==
  \/ LoopCaller
  \/ Worker

SpecLoop ==
  LoopInit /\ [][LoopNext]_vars /\ WF_vars(LoopCaller) /\ WF_vars(Worker)

(* ------------------------------ planning ------------------------------- *)
\* The constructors of StreamIn and StreamRead compute the plan from the
\* channel list, the duration, the total rate and the scans-per-read argument
\* before they make any device call.  Durations are fractions, rates and
\* counts integers; the arithmetic is exact (the code's is in doubles).

\* largest numerator and denominator of a requested duration
MaxDuration == 3
MaxDenominator == 2
\* largest total rate besides the default one, and largest scans_per_read given
MaxRate == 5
MaxHint == 3
\* the default total rate
DefaultRate == 100000

Durations == {<<n, d>> : n \in (-1)..MaxDuration, d \in 1..MaxDenominator}
Rates == ((-1)..MaxRate) \cup {DefaultRate}
Hints == {<<>>} \cup {<<h>> : h \in (-1)..MaxHint}

\* np.ceil(n / d) as an integer, d # 0
CeilDiv(n, d) == IF d > 0 THEN -((-n) \div d) ELSE -(n \div (-d))

\* int(n / d): truncation towards zero, d # 0
TruncDiv(n, d) ==
  LET q == (IF n < 0 THEN -n ELSE n) \div (IF d < 0 THEN -d ELSE d)
  IN IF (n < 0) # (d < 0) THEN -q ELSE q

\* int(np.ceil(sampling_rate_Hz*duration_s))
NumSamples(rate, dur) == CeilDiv(rate * dur[1], dur[2])

\* faulty variant: the last scan is cut off instead of completed
NumScansFloor(samples, nch) == TruncDiv(samples, nch)

\* int(np.ceil(float(num_samples)/num_channels))
NumScans(samples, nch) == CeilDiv(samples, nch)

\* faulty variant: the total rate is taken for the rate per channel
DefaultScansPerReadTotalRate(rate, nch, dur) == TruncDiv(rate * dur[1], dur[2])

\* int(scan_rate_Hz*duration_s), with scan_rate_Hz the total rate over the
\* number of channels
DefaultScansPerRead(rate, nch, dur) == TruncDiv(rate * dur[1], nch * dur[2])

\* faulty variant: a last partial read is dropped
NumReadsFloor(scans, spr) == TruncDiv(scans, spr)

\* faulty variant: one read more than needed
NumReadsOneMore(scans, spr) == CeilDiv(scans, spr) + 1

\* int(np.ceil(float(num_scans)/scans_per_read))
NumReads(scans, spr) == CeilDiv(scans, spr)

\* the scans per read the constructor settles on
ResolvedScansPerRead(rate, nch, dur, hint) ==
  IF hint = <<>> THEN DefaultScansPerRead(rate, nch, dur) ELSE hint[1]

\* The divisions of the planning that raise ZeroDivisionError; nothing else
\* in it raises.  StreamIn divides by the number of channels, by the total
\* rate and by the scans per read; StreamRead also divides by the adjusted
\* duration, which is zero when no sample is planned.
PlanRaises(k, nch, dur, rate, hint) ==
  IF nch = 0 \/ rate = 0 THEN TRUE
  ELSE IF k = "StreamRead" /\ NumScans(NumSamples(rate, dur), nch) = 0 THEN TRUE
  ELSE ResolvedScansPerRead(rate, nch, dur, hint) = 0

\* the plan the constructor stores; rates and durations are fractions
\* <<numerator, denominator>>.  StreamIn takes the rate per channel as
\* rate / channels; StreamRead takes it as scans per channel over the adjusted
\* duration, (scans) / (scans * channels / rate), the same fraction.
Plan(k, nch, dur, rate, hint) ==
  LET num_scans == NumScans(NumSamples(rate, dur), nch)
      spr == ResolvedScansPerRead(rate, nch, dur, hint)
  IN [num_samples |-> num_scans * nch,
      num_scans |-> num_scans,
      scan_rate |-> <<rate, nch>>,
      duration |-> <<num_scans * nch, rate>>,
      scans_per_read |-> spr,
      num_reads |-> NumReads(num_scans, spr)]

\* the stream operation itself is not part of a planning run
DriverOff ==
  /\ do_trigger = FALSE
  /\ pc = "off"
  /\ step = 1
  /\ calls = <<>>
  /\ ir = 0
  /\ noScans = 0
  /\ readlog = <<>>
  /\ queue = <<>>
  /\ unfinished = 0
  /\ wpc = "none"
  /\ witem = <<>>
  /\ total_a_data = <<>>
  /\ skipped = 0
  /\ pending = NoExc
  /\ err = NoExc
  /\ handle = 1
  /\ linkOpen = TRUE
  /\ records = <<>>

driver_vars == <<do_trigger, pc, step, calls, ir, noScans, readlog, queue,
                 unfinished, wpc, witem, total_a_data, skipped, pending,
                 handle, linkOpen, records>>

PlanInit ==
  /\ kind \in {"StreamIn", "StreamRead"}
  /\ num_channels \in 0..MaxChannels
  /\ duration_s \in Durations
  /\ sampling_rate_Hz \in Rates
  /\ scans_per_read \in Hints
  /\ plan = <<>>
  /\ ppc = "plan"
  /\ scans_read = 0
  /\ numReads = 0
  /\ DriverOff
  /\ ThreadsOff
  /\ LoopOff
  /\ ArmOff
  /\ ConnOff

\* the planning of the constructor raises ZeroDivisionError
PlanFail ==
  /\ ppc = "plan"
  /\ PlanRaises(kind, num_channels, duration_s, sampling_rate_Hz, scans_per_read)
  /\ ppc' = "failed"
  /\ err' = Raise("ZeroDivisionError", "", NoExc)
  /\ UNCHANGED <<kind, num_channels, numReads, duration_s, sampling_rate_Hz,
                 scans_per_read, plan, driver_vars, thread_vars, scans_read, arm_vars,
                 conn_vars, loop_vars>>

\* the planning of the constructor stores the plan
PlanDone ==
  /\ ppc = "plan"
  /\ ~PlanRaises(kind, num_channels, duration_s, sampling_rate_Hz, scans_per_read)
  /\ plan' = Plan(kind, num_channels, duration_s, sampling_rate_Hz, scans_per_read)
  /\ numReads' = plan'.num_reads
  /\ ppc' = "planned"
  /\ UNCHANGED <<kind, num_channels, duration_s, sampling_rate_Hz,
                 scans_per_read, err, driver_vars, thread_vars, scans_read, arm_vars,
                 conn_vars, loop_vars>>

\* with the plan stored the constructor goes on to the device: _configure
\* makes the first call
PlanConfigure ==
  /\ ppc = "planned"
  /\ ppc' = "configure"
  /\ UNCHANGED <<kind, num_channels, numReads, duration_s, sampling_rate_Hz,
                 scans_per_read, plan, err, driver_vars, thread_vars, scans_read, arm_vars,
                 conn_vars, loop_vars>>

\* the stream of a plan with a positive scans_per_read runs to its end with
\* every link call succeeding: eStreamStart is given scans_per_read, each of
\* the num_reads reads returns scans_per_read scans of every channel, and
\* the accumulator handed to the reassembly holds them all
PlanStream ==
  /\ ppc = "configure"
  /\ plan.scans_per_read > 0
  /\ scans_read' = (IF numReads > 0 THEN numReads ELSE 0) * plan.scans_per_read
  /\ ppc' = "streamed"
  /\ UNCHANGED <<kind, num_channels, numReads, duration_s, sampling_rate_Hz,
                 scans_per_read, plan, err, driver_vars, thread_vars, arm_vars,
                 conn_vars, loop_vars>>

PlanNext ==
  \/ PlanFail
  \/ PlanDone
  \/ PlanConfigure
  \/ PlanStream

SpecPlan == PlanInit /\ [][PlanNext]_vars

(* ======================= properties of the drivers ===================== *)
\* observations on the call log
NumCalls(c) == Cardinality({i \in 1..Len(calls) : calls[i][1] = c})
NumAnswers(c, os) ==
  Cardinality({i \in 1..Len(calls) : calls[i][1] = c /\ calls[i][4] \in os})
Failures == {"ljm", "other"}
StartSucceeded == NumAnswers("eStreamStart", {"ok"}) > 0
StartFailed == NumAnswers("eStreamStart", Failures) > 0
ReadFailedFatally == NumAnswers("eStreamRead", Failures) > 0
ReadAborted == NumAnswers("eStreamRead", {"abort"}) > 0
StopFailed == NumAnswers("eStreamStop", Failures) > 0
Finally == {"StreamIn", "StreamRead"}

\* C1: in StreamIn and StreamRead, once eStreamStart has succeeded, every way
\* out of the read loop (all reads done, a fatal read failure on any
\* iteration, an abort during a read) issues exactly one eStreamStop; no
\* stop is issued twice or without a successful start.
C1_ExactlyOneStop ==
  kind \in Finally =>
    /\ NumCalls("eStreamStop") <= 1
    /\ NumCalls("eStreamStop") = 1 => StartSucceeded
    /\ (StartSucceeded /\ pc \notin {"read", "stop"}) => NumCalls("eStreamStop") = 1

\* a read failure on iteration 1 of 2, and the one stop issued
C1_Witness ==
  /\ kind = "StreamRead"
  /\ pc = "failed"
  /\ numReads = 2
  /\ ir = 1
  /\ ReadFailedFatally
  /\ NumCalls("eStreamStop") = 1

\* the read loop has been left with neither a failure nor an abort
LoopLeftNormally ==
  StartSucceeded /\ pc # "read" /\ ~ReadFailedFatally /\ ~ReadAborted

\* C2: a NO_SCANS_RETURNED response is retried without moving the iteration
\* counter and never ends the operation: the counter equals the number of
\* reads that returned data, an exception is in flight only after a read that
\* answered otherwise, and the loop ends normally only after numReads reads
\* with data, having issued numReads + noScans read calls.
C2_NoScansRetried ==
  /\ ir = NumAnswers("eStreamRead", {"ok"})
  /\ noScans = NumAnswers("eStreamRead", {"noscans"})
  /\ ir <= numReads
  /\ (pc = "read" /\ NumAnswers("eStreamRead", Failures \cup {"abort"}) = 0)
       => (pending = NoExc /\ err = NoExc)
  /\ LoopLeftNormally =>
       /\ ir = numReads
       /\ NumCalls("eStreamRead") = numReads + noScans

\* a stream that finished after two consecutive no-scans responses
C2_Witness ==
  /\ pc = "done"
  /\ numReads >= 2
  /\ \E i \in 1..(Len(calls) - 1) :
       calls[i][4] = "noscans" /\ calls[i + 1][4] = "noscans"

\* C3: in StreamIn and StreamRead a read that fails with anything but
\* NO_SCANS_RETURNED ends the loop at once: no read call follows it, no
\* result is stored, and the operation ends with a LabJackStreamReadError.
C3_ReadFailureEndsLoop ==
  (kind \in Finally /\ ReadFailedFatally) =>
    /\ \A i \in 1..Len(calls) :
         (calls[i][1] = "eStreamRead" /\ calls[i][4] \in Failures)
           => \A j \in (i + 1)..Len(calls) : calls[j][1] # "eStreamRead"
    /\ pc \in {"stop", "failed"}
    /\ records = <<>>
    /\ pc = "failed" => ExcClass(err) = "LabJackStreamReadError"

\* a failure after one good read, with a read still owed
C3_Witness ==
  /\ kind = "StreamIn"
  /\ pc = "failed"
  /\ ReadFailedFatally
  /\ ir = 1
  /\ numReads = 2
  /\ ~StopFailed

PhaseRank(ph) ==
  CASE ph = "configure" -> 1
    [] ph = "arm" -> 2
    [] ph = "start" -> 3
    [] ph = "read" -> 4
    [] ph = "stop" -> 5

\* C5: the link calls follow the order configure, arm, start, reads, stop;
\* a call is issued only after every earlier configure, arm and start call
\* succeeded; eStreamStart is issued at most once, after the baseline
\* configuration and, exactly when do_trigger is set, after the arming
\* sequence ran to its last write; without do_trigger nothing is armed.
C5_PhaseOrder ==
  /\ \A i, j \in 1..Len(calls) :
       i < j =>
         /\ PhaseRank(calls[i][2]) <= PhaseRank(calls[j][2])
         /\ calls[i][2] \in {"configure", "arm", "start"} => calls[i][4] = "ok"
  /\ NumCalls("eStreamStart") <= 1
  /\ NumCalls("eStreamStart") = 1 =>
       /\ \E i \in 1..Len(calls) : calls[i][2] = "configure"
       /\ do_trigger =>
            \E i \in 1..Len(calls) :
              calls[i][2] = "arm" /\ calls[i][3] = "EF_ENABLE=1"
  /\ ~do_trigger => \A i \in 1..Len(calls) : calls[i][2] # "arm"

\* a triggered stream that went through every phase
C5_Witness ==
  /\ kind = "StreamIn"
  /\ do_trigger
  /\ pc = "done"

\* hand-offs put on the queue that the worker has not stacked yet
HandoffsUnprocessed ==
  Cardinality({i \in 1..Len(queue) : queue[i] # <<>>})
    + (IF wpc = "stack" THEN 1 ELSE 0)

\* C6 as stated: in StreamIn, once eStreamStop has been issued no hand-off
\* is left unprocessed.
C6_StopAfterDrain ==
  (kind = "StreamIn" /\ NumCalls("eStreamStop") > 0) => HandoffsUnprocessed = 0

\* C6 amended: in StreamIn the stop is issued first; the loop thread signals
\* the worker to exit, joins it and reassembles only after the queue join,
\* when every hand-off has been stacked and marked done.
C6_JoinBeforeTeardown ==
  kind = "StreamIn" =>
    /\ pc \in {"join", "put_none", "thread_join", "reassemble", "done"}
         => NumAnswers("eStreamStop", {"ok"}) = 1
    /\ (\/ pc \in {"put_none", "thread_join", "reassemble", "done"}
        \/ wpc = "exited"
        \/ \E i \in 1..Len(queue) : queue[i] = <<>>)
         => /\ HandoffsUnprocessed = 0
            /\ wpc # "task_done"
            /\ Len(total_a_data) = numReads * num_channels

\* the loop thread past the queue join of a two-read stream
C6_Witness ==
  /\ kind = "StreamIn"
  /\ pc = "thread_join"
  /\ numReads = 2
  /\ Len(total_a_data) = 2 * num_channels

RECURSIVE StackedInOrder(_)
\* the accumulator that stacking the reads of log in order gives
StackedInOrder(log) ==
  IF log = <<>> THEN <<>>
  ELSE ArrayToNaN(Head(log)) \o StackedInOrder(Tail(log))

\* C7: in StreamIn the accumulator always holds the first reads in read
\* order, and after a successful stream it is the concatenation of read 0,
\* ..., read numReads - 1, each hand-off stacked exactly once.
C7_FifoOrder ==
  kind = "StreamIn" =>
    /\ \E n \in 0..Len(readlog) :
         total_a_data = StackedInOrder(SubSeq(readlog, 1, n))
    /\ pc = "done" =>
         /\ Len(readlog) = numReads
         /\ total_a_data = StackedInOrder(readlog)

\* a finished two-read stream whose reads differ
C7_Witness ==
  /\ kind = "StreamIn"
  /\ pc = "done"
  /\ numReads = 2
  /\ readlog[1] # readlog[2]

\* e is the error of a failed read: the link's error or its wrapper
FromRead(e) ==
  /\ e # NoExc
  /\ \/ ExcOrigin(e) = "eStreamRead"
     \/ ExcCause(e) # NoExc /\ ExcOrigin(ExcCause(e)) = "eStreamRead"

ReadThenStopFailed ==
  kind \in Finally /\ pc = "failed" /\ ReadFailedFatally /\ StopFailed

\* C8 as stated: after a read failure and a stop failure the reported error
\* has the read error as its cause.
C8_CauseIsReadError ==
  ReadThenStopFailed => FromRead(ExcCause(err))

\* C8 amended: the reported error is the wrapper of the stop failure, its
\* cause is the link's stop error, and the read error (the wrapper raised
\* for the read) is the context of that cause.
C8_ReadErrorIsContextOfCause ==
  ReadThenStopFailed =>
    /\ ExcClass(err) = "LabJackStreamReadError"
    /\ ExcOrigin(ExcCause(err)) = "eStreamStop"
    /\ FromRead(ExcContext(ExcCause(err)))
    /\ ExcClass(ExcContext(ExcCause(err))) = "LabJackStreamReadError"

\* a StreamIn whose second read and whose stop both failed
C8_Witness ==
  /\ ReadThenStopFailed
  /\ kind = "StreamIn"
  /\ ir = 1

StreamCalls == {"eStreamStart", "eStreamRead", "eStreamStop"}

RECURSIVE Reaches(_, _)
\* an error raised by link call c is reachable from e over cause and context
Reaches(e, c) ==
  /\ e # NoExc
  /\ \/ ExcOrigin(e) = c
     \/ Reaches(ExcCause(e), c)
     \/ Reaches(ExcContext(e), c)

\* C9 as stated: in StreamIn the kind of the error reported for a failed
\* start, read or stop is the kind of no other of these phases.
C9_KindTellsPhase ==
  (/\ kind = "StreamIn"
   /\ pc = "failed"
   /\ ExcCause(err) # NoExc
   /\ ExcOrigin(ExcCause(err)) \in StreamCalls)
    => \A c \in StreamCalls \ {ExcOrigin(ExcCause(err))} :
         WrapClass(kind, c) # ExcClass(err)

\* C9 amended: in StreamIn a failed start, read or stop never lets the
\* operation succeed; the error reported is a LabJackStreamReadError for all
\* three phases, and the link error of every failed call is reachable from
\* it over cause and context links.
C9_OneKindNothingLost ==
  (kind = "StreamIn" /\ \E i \in 1..Len(calls) :
      calls[i][1] \in StreamCalls /\ calls[i][4] \in Failures) =>
    /\ pc \in {"stop", "failed"}
    /\ pc = "failed" =>
         /\ ExcClass(err) = "LabJackStreamReadError"
         /\ ExcCause(err) # NoExc
         /\ \A i \in 1..Len(calls) :
              (calls[i][1] \in StreamCalls /\ calls[i][4] \in Failures)
                => Reaches(err, calls[i][1])

\* a StreamIn whose reads all succeeded and whose stop failed
C9_Witness ==
  /\ kind = "StreamIn"
  /\ pc = "failed"
  /\ ir = numReads
  /\ StopFailed

\* C10: after a failed stream the caller's handle is unchanged and its
\* connection is still open.
C10_HandlePreserved ==
  pc = "failed" => (handle = 1 /\ linkOpen)

\* C11: when a StreamIn or StreamRead operation fails after some reads have
\* succeeded, the caller gets one terminal error and no result: the records
\* are never set on a failed operation, and they are set only by an operation
\* that ended without any failed or interrupted call.
C11_NoPartialResult ==
  kind \in Finally =>
    /\ pc = "failed" => (err # NoExc /\ records = <<>>)
    /\ records # <<>> =>
         /\ pc = "done"
         /\ err = NoExc
         /\ NumAnswers("eStreamRead", Failures \cup {"abort"}) = 0
         /\ ~StopFailed

\* a failed pipelined operation that had already accumulated samples
C11_Witness ==
  /\ kind = "StreamIn"
  /\ pc = "failed"
  /\ ir >= 1
  /\ total_a_data # <<>>
  /\ ReadFailedFatally
  /\ records = <<>>

\* C12: in LabJack_control the stop call is issued whenever the stream was
\* started, also after a read failed with an error other than
\* NO_SCANS_RETURNED.
C12_ControlStopsAfterReadFailure ==
  (kind = "Control" /\ StartSucceeded /\ pc = "failed") =>
    NumCalls("eStreamStop") >= 1

\* C13: in StreamIn, from the start of the worker until it is joined, the
\* accumulator and the skipped counter change only in the worker's stacking
\* step (the loop thread issues no call and does not move in that step), and
\* the loop thread reads them, for the summary and the reassembly, only after
\* every hand-off has been taken, stacked and marked done and the worker has
\* exited.
C13_WorkerOwnsAccumulator ==
  [][kind = "StreamIn" =>
       /\ (total_a_data' # total_a_data \/ skipped' # skipped) =>
            /\ wpc = "stack" /\ wpc' = "task_done"
            /\ pc' = pc /\ ir' = ir /\ calls' = calls
            /\ total_a_data' = total_a_data \o ArrayToNaN(witem[2])
       /\ pc' = "reassemble" =>
            /\ wpc' = "exited"
            /\ queue' = <<>>
            /\ total_a_data' = StackedInOrder(readlog')
       /\ records' # records =>
            /\ pc = "reassemble"
            /\ wpc = "exited"
            /\ total_a_data = StackedInOrder(readlog)]_vars

\* the loop thread is about to read an accumulator the worker filled from two
\* hand-offs
C13_Witness ==
  /\ kind = "StreamIn"
  /\ pc = "reassemble"
  /\ wpc = "exited"
  /\ Len(readlog) = MaxReads
  /\ total_a_data = StackedInOrder(readlog)

(* ------------------------- arming the trigger -------------------------- *)
\* The calls before eStreamStart with what they write.  A dict of names and
\* values is a sequence of <<name, value>> in insertion order.  Timeouts are
\* <<>> for None or a fraction <<numerator, denominator>> of seconds.

\* largest numerator of a timeout
MaxTimeout == 5

Modes == {"FrequencyIn", "PulseWidthIn", "ConditionalReset"}
Edges == {"Rising", "Falling"}
Timeouts ==
  {<<>>} \cup {<<n, d>> : n \in (-1)..MaxTimeout, d \in 1..MaxDenominator}

\* LabJackTriggerModeEnum.<mode>.value
ModeValue(mode) ==
  CASE mode = "FrequencyIn" -> 3
    [] mode = "PulseWidthIn" -> 5
    [] mode = "ConditionalReset" -> 12

\* LabJackTriggerEdgeEnum.<edge>.value
EdgeValue(edge) == IF edge = "Rising" THEN 1 ELSE 0

\* d[k] = v on a dict: an existing key keeps its place
DictSet(d, k, v) ==
  IF \E i \in 1..Len(d) : d[i][1] = k
  THEN [i \in 1..Len(d) |-> IF d[i][1] = k THEN <<k, v>> ELSE d[i]]
  ELSE Append(d, <<k, v>>)

DictHas(d, k) == \E i \in 1..Len(d) : d[i][1] = k
DictGet(d, k) == d[CHOOSE i \in 1..Len(d) : d[i][1] = k][2]

\* faulty variant: the edge is not applied to FrequencyIn
ModeIndexIgnoresEdge(mode, edge) == ModeValue(mode)

\* the EF index of the selected mode
ModeIndex(mode, edge) ==
  IF mode = "FrequencyIn"
  THEN ModeValue(mode) + (IF edge = "Rising" THEN 0 ELSE 1)
  ELSE ModeValue(mode)

\* the dict config_register_trigger that _configure_trigger builds
TriggerRegisters(mode, edge) ==
  LET d0 == << <<"STREAM_TRIGGER_INDEX", "address">> >>
      d1 == DictSet(d0, "EF_INDEX", 3)
      d2 == DictSet(d1, "EF_INDEX", 4)
      d3 == IF mode \in {"FrequencyIn", "PulseWidthIn"}
            THEN DictSet(d2, "EF_INDEX", ModeIndex(mode, edge)) ELSE d2
  IN IF mode = "ConditionalReset"
     THEN DictSet(DictSet(d3, "EF_INDEX", ModeIndex(mode, edge)),
                  "EF_CONFIG_A", EdgeValue(edge))
     ELSE d3

\* faulty variant: configure_register writes what it was given and nothing
\* else
ConfigureRegisterAsGiven(kwargs) == <<"eWriteNames", kwargs>>

\* configure_register(**kwargs): the two analog-input settings are added to
\* every call, then one eWriteNames writes all of it
ConfigureRegister(kwargs) ==
  <<"eWriteNames",
    DictSet(DictSet(kwargs, "AIN_ALL_NEGATIVE_CH", "GND"), "AIN_ALL_RANGE", 10)>>

\* faulty variant: the extended feature is enabled before its registers are
\* written
ConfigureTriggerCallsEnableFirst(mode, edge, timeout) ==
  << <<"writeLibraryConfigS",
       << <<"STREAM_SCANS_RETURN", "STREAM_SCANS_RETURN_ALL">>,
          <<"STREAM_RECEIVE_TIMEOUT_MS", timeout>> >> >>,
     ConfigureRegister(<< <<"EF_ENABLE", 0>> >>),
     ConfigureRegister(<< <<"EF_ENABLE", 1>> >>),
     <<"nameToAddress", <<>> >>,
     ConfigureRegister(TriggerRegisters(mode, edge)) >>

\* StreamIn._configure_trigger / StreamRead._configure_trigger: the link
\* calls in program order, each with the dict it writes
ConfigureTriggerCalls(mode, edge, timeout) ==
  << <<"writeLibraryConfigS",
       << <<"STREAM_SCANS_RETURN", "STREAM_SCANS_RETURN_ALL">>,
          <<"STREAM_RECEIVE_TIMEOUT_MS", timeout>> >> >>,
     ConfigureRegister(<< <<"EF_ENABLE", 0>> >>),
     <<"nameToAddress", <<>> >>,
     ConfigureRegister(TriggerRegisters(mode, edge)),
     ConfigureRegister(<< <<"EF_ENABLE", 1>> >>) >>

\* one eWriteName / writeLibraryConfigS of LabJack_control
WriteName(call, name, value) == <<call, << <<name, value>> >> >>

\* faulty variant: LabJack_control asks for complete reads that block
ControlLibraryCallsReturnAll ==
  << WriteName("writeLibraryConfigS", "STREAM_SCANS_RETURN",
               "STREAM_SCANS_RETURN_ALL"),
     WriteName("writeLibraryConfigS", "STREAM_RECEIVE_TIMEOUT_MS", <<0, 1>>) >>

\* LabJack_control _configure_ljm_for_triggered_stream
ControlLibraryCalls ==
  << WriteName("writeLibraryConfigS", "STREAM_SCANS_RETURN",
               "STREAM_SCANS_RETURN_ALL_OR_NONE"),
     WriteName("writeLibraryConfigS", "STREAM_RECEIVE_TIMEOUT_MS", <<0, 1>>) >>

\* LabJack_control _configure_triggered_stream, then the library settings
ControlTriggerCalls(mode, edge) ==
  << <<"nameToAddress", <<>> >>,
     WriteName("eWriteName", "STREAM_TRIGGER_INDEX", "address"),
     WriteName("eWriteName", "EF_ENABLE", 0),
     WriteName("eWriteName", "EF_INDEX", 3),
     WriteName("eWriteName", "EF_INDEX", 4) >>
  \o (IF mode \in {"FrequencyIn", "PulseWidthIn"}
      THEN << WriteName("eWriteName", "EF_INDEX", ModeIndex(mode, edge)) >>
      ELSE <<>>)
  \o (IF mode = "ConditionalReset"
      THEN << WriteName("eWriteName", "EF_INDEX", ModeIndex(mode, edge)),
              WriteName("eWriteName", "EF_CONFIG_A", EdgeValue(edge)) >>
      ELSE <<>>)
  \o << WriteName("eWriteName", "EF_ENABLE", 1) >>
  \o ControlLibraryCalls

\* the calls of a sequence without what they write
Bare(seq) == [i \in 1..Len(seq) |-> <<seq[i][1], <<>> >>]

\* the dict config_resister of StreamIn._configure / StreamRead._configure
BaselineRegisters ==
  << <<"STREAM_TRIGGER_INDEX", 0>>,
     <<"STREAM_CLOCK_SOURCE", 0>>,
     <<"STREAM_SETTLING_US", 0>>,
     <<"STREAM_RESOLUTION_INDEX", 0>> >>

\* StreamIn._configure / StreamRead._configure: one configure_register
ConfigureCalls == << ConfigureRegister(BaselineRegisters) >>

\* LabJack_control stream(): the scan list is resolved, then the baseline is
\* written by two eWriteName and one eWriteNames
ControlConfigureCalls ==
  << <<"namesToAddresses", <<>> >>,
     WriteName("eWriteName", "STREAM_TRIGGER_INDEX", 0),
     WriteName("eWriteName", "STREAM_CLOCK_SOURCE", 0),
     <<"eWriteNames",
       << <<"AIN_ALL_NEGATIVE_CH", "GND">>,
          <<"AIN0_RANGE", 10>>,
          <<"AIN1_RANGE", 10>>,
          <<"STREAM_SETTLING_US", 0>>,
          <<"STREAM_RESOLUTION_INDEX", 0>> >> >> >>

\* faulty variant: the trigger is armed whether or not it was requested
ArmCallsAlwaysArms(k, trig, mode, edge, timeout) ==
  IF k = "Control"
  THEN ControlConfigureCalls \o ControlTriggerCalls(mode, edge)
  ELSE ConfigureCalls
       \o ConfigureTriggerCalls(mode, edge, timeout)
       \o Bare(<< <<"namesToAddresses", "start", "scan list">> >>)

\* all calls before eStreamStart of a run of driver k
ArmCalls(k, trig, mode, edge, timeout) ==
  IF k = "Control"
  THEN ControlConfigureCalls
       \o (IF trig THEN ControlTriggerCalls(mode, edge) ELSE <<>>)
  ELSE ConfigureCalls
       \o (IF trig THEN ConfigureTriggerCalls(mode, edge, timeout) ELSE <<>>)
       \o Bare(<< <<"namesToAddresses", "start", "scan list">> >>)

\* faulty variant: only a negative timeout is refused
TimeoutRefusedNegativeOnly(t) == t # <<>> /\ t[1] < 0

\* trigger_timeout_s is not None and trigger_timeout_s <= 0
TimeoutRefused(t) == t # <<>> /\ t[1] <= 0

ArmInit ==
  /\ kind \in Kinds
  /\ do_trigger \in BOOLEAN
  /\ trigger_mode \in Modes
  /\ trigger_edge \in Edges
  /\ trigger_timeout_s \in (IF kind = "Control" THEN {<<>>} ELSE Timeouts)
  /\ trigger_timeout = <<>>
  /\ apc = "check"
  /\ astep = 1
  /\ alog = <<>>
  /\ num_channels = 1
  /\ numReads = 1
  /\ pc = "off"
  /\ step = 1
  /\ calls = <<>>
  /\ ir = 0
  /\ noScans = 0
  /\ readlog = <<>>
  /\ queue = <<>>
  /\ unfinished = 0
  /\ wpc = "none"
  /\ witem = <<>>
  /\ total_a_data = <<>>
  /\ skipped = 0
  /\ pending = NoExc
  /\ err = NoExc
  /\ handle = 1
  /\ linkOpen = TRUE
  /\ records = <<>>
  /\ PlanOff
  /\ ThreadsOff
  /\ LoopOff
  /\ ConnOff

arm_rest == <<kind, do_trigger, num_channels, numReads, pc, step, calls, ir,
              noScans, readlog, queue, unfinished, wpc, witem, total_a_data,
              skipped, pending, handle, linkOpen, records, plan_vars,
              thread_vars, conn_vars, loop_vars, trigger_mode, trigger_edge,
              trigger_timeout_s>>

\* the constructor of StreamIn / StreamRead checks the timeout and stores
\* it, 0 for None; LabJack_control takes no timeout and writes 0
ArmCheckTimeout ==
  /\ apc = "check"
  /\ IF kind # "Control" /\ TimeoutRefused(trigger_timeout_s)
     THEN /\ apc' = "failed"
          /\ err' = Raise("ValueError", "", NoExc)
          /\ trigger_timeout' = trigger_timeout
     ELSE /\ apc' = "calls"
          /\ err' = err
          /\ trigger_timeout' =
               IF trigger_timeout_s = <<>> THEN <<0, 1>> ELSE trigger_timeout_s
  /\ UNCHANGED <<astep, alog, arm_rest>>

\* the next call before eStreamStart: it succeeds, or the link raises and
\* the run ends
ArmCall ==
  /\ apc = "calls"
  /\ LET seq == ArmCalls(kind, do_trigger, trigger_mode, trigger_edge,
                         trigger_timeout)
     IN \E o \in {"ok", "ljm", "other"} :
          /\ alog' = Append(alog, <<seq[astep][1], seq[astep][2], o>>)
          /\ IF o = "ok"
             THEN /\ astep' = astep + 1
                  /\ apc' = IF astep = Len(seq) THEN "start" ELSE "calls"
                  /\ err' = err
             ELSE /\ astep' = astep
                  /\ apc' = "failed"
                  /\ err' = Wrapped(kind, seq[astep][1],
                                    Raise(LinkErrorClass(o), seq[astep][1], NoExc))
  /\ UNCHANGED <<trigger_timeout, arm_rest>>

\* eStreamStart
ArmStart ==
  /\ apc = "start"
  /\ \E o \in {"ok", "ljm", "other"} :
       /\ alog' = Append(alog, <<"eStreamStart", <<>>, o>>)
       /\ IF o = "ok"
          THEN /\ apc' = "started"
               /\ err' = err
          ELSE /\ apc' = "failed"
               /\ err' = Wrapped(kind, "eStreamStart",
                                 Raise(LinkErrorClass(o), "eStreamStart", NoExc))
  /\ UNCHANGED <<astep, trigger_timeout, arm_rest>>

ArmNext ==
  \/ ArmCheckTimeout
  \/ ArmCall
  \/ ArmStart

SpecArm == ArmInit /\ [][ArmNext]_vars

\* Two stream operations of one process, one after the other.  Library
\* settings are settings of the link library in the process: what an
\* operation wrote stays in force until it is written again.  The reads and
\* the stop of the first operation are not followed; the log goes on, with
\* a mark where the second operation begins.
SecondStarted == \E i \in 1..Len(alog) : alog[i][1] = "next operation"

\* the first operation has ended; the same caller constructs another one,
\* with or without a trigger
SeqAgain ==
  /\ apc \in {"started", "failed"}
  /\ ~SecondStarted
  /\ do_trigger' \in BOOLEAN
  /\ apc' = "check"
  /\ astep' = 1
  /\ trigger_timeout' = <<>>
  /\ err' = NoExc
  /\ alog' = Append(alog, <<"next operation", <<>>, "ok">>)
  /\ UNCHANGED <<kind, num_channels, numReads, pc, step, calls, ir, noScans,
                 readlog, queue, unfinished, wpc, witem, total_a_data, skipped,
                 pending, handle, linkOpen, records, plan_vars, thread_vars,
                 conn_vars, loop_vars, trigger_mode, trigger_edge, trigger_timeout_s>>

SeqNext ==
  \/ ArmCheckTimeout
  \/ ArmCall
  \/ ArmStart
  \/ SeqAgain

SpecSeq == ArmInit /\ [][SeqNext]_vars

(* ------------------- two callers on one device object ----------------- *)
\* Two threads call stream_in on the same LabJackDevice.  stream_in checks
\* the connection and constructs a StreamIn on the shared handle; neither
\* takes a lock, so the steps of the two constructors interleave freely.
\* Each constructor is followed call by call: configure, start, the reads,
\* stop.  The link answers each call by itself, with success or an LJMError.

ThreadInit ==
  /\ kind = "StreamIn"
  /\ num_channels = 1
  /\ numReads \in 1..MaxReads
  /\ tpc = [t \in Threads |-> "call"]
  /\ tir = [t \in Threads |-> 0]
  /\ tcalls = <<>>
  /\ err = NoExc
  /\ DriverOff
  /\ PlanOff
  /\ LoopOff
  /\ ArmOff
  /\ ConnOff

thread_rest == <<kind, num_channels, numReads, err, driver_vars, plan_vars,
                 arm_vars, conn_vars, loop_vars>>

\* thread t enters stream_in: _check_connection passes, the handle is set
TCheckConnection(t) ==
  /\ tpc[t] = "call"
  /\ handle # 0
  /\ tpc' = [tpc EXCEPT ![t] = "configure"]
  /\ UNCHANGED <<tir, tcalls, thread_rest>>

\* the constructor of t configures the stream on the handle
TConfigure(t) ==
  /\ tpc[t] = "configure"
  /\ \E o \in {"ok", "ljm"} :
       /\ tcalls' = Append(tcalls, <<t, "eWriteNames", o>>)
       /\ tpc' = [tpc EXCEPT ![t] = IF o = "ok" THEN "start" ELSE "failed"]
  /\ UNCHANGED <<tir, thread_rest>>

\* the constructor of t starts the stream
TStart(t) ==
  /\ tpc[t] = "start"
  /\ \E o \in {"ok", "ljm"} :
       /\ tcalls' = Append(tcalls, <<t, "eStreamStart", o>>)
       /\ tpc' = [tpc EXCEPT ![t] = IF o = "ok" THEN "read" ELSE "failed"]
  /\ UNCHANGED <<tir, thread_rest>>

\* one read of t: the samples arrive, or it raises and the finally block is
\* entered
TRead(t) ==
  /\ tpc[t] = "read"
  /\ \E o \in {"ok", "ljm"} :
       /\ tcalls' = Append(tcalls, <<t, "eStreamRead", o>>)
       /\ tir' = [tir EXCEPT ![t] = IF o = "ok" THEN @ + 1 ELSE @]
       /\ tpc' = [tpc EXCEPT ![t] =
                    IF o = "ok" /\ tir[t] + 1 < numReads THEN "read" ELSE "stop"]
  /\ UNCHANGED thread_rest

\* the stop of t in its finally block
TStop(t) ==
  /\ tpc[t] = "stop"
  /\ \E o \in {"ok", "ljm"} :
       /\ tcalls' = Append(tcalls, <<t, "eStreamStop", o>>)
       /\ tpc' = [tpc EXCEPT ![t] =
                    IF o = "ok" /\ tir[t] = numReads THEN "done" ELSE "failed"]
  /\ UNCHANGED <<tir, thread_rest>>

ThreadNext ==
  \/ \E t \in Threads : TCheckConnection(t)
  \/ \E t \in Threads : TConfigure(t)
  \/ \E t \in Threads : TStart(t)
  \/ \E t \in Threads : TRead(t)
  \/ \E t \in Threads : TStop(t)

SpecThreads == ThreadInit /\ [][ThreadNext]_vars

\* the stream operations active on the handle: started and not yet stopped
ActiveStreams == {t \in Threads : tpc[t] \in {"read", "stop"}}

(* ----------------- the device object and its connection ---------------- *)
\* A LabJackDevice after its constructor connected it.  Its operations are
\* called in any order; each is logged as <<operation, handle before it,
\* result, link calls it issued>>, the result being "ok" or the class of the
\* exception it raised.

\* number of operations followed on one object, number of handles of the link
MaxOps == 3
MaxHandles == 2

ConnInit ==
  /\ kind = "StreamIn"
  /\ num_channels = 1
  /\ numReads = 1
  /\ DriverOff
  /\ PlanOff
  /\ ThreadsOff
  /\ LoopOff
  /\ ArmOff
  /\ open_handles = {1}
  /\ oplog = <<>>

conn_rest == <<kind, do_trigger, num_channels, numReads, pc, step, calls, ir,
               noScans, readlog, queue, unfinished, wpc, witem, total_a_data,
               skipped, pending, err, linkOpen, records, plan_vars,
               thread_vars, arm_vars, loop_vars>>

\* faulty variant: the check never raises
CheckConnectionNever(h) == FALSE

\* _check_connection raises exactly when the handle attribute is None
CheckConnection(h) == h = 0

Log(op, result, linkcalls) ==
  oplog' = Append(oplog, <<op, handle, result, linkcalls>>)

\* _connect, called again on the constructed object by __enter__: openS
\* gives a handle, which is stored, or raises and the attribute is kept
Enter ==
  /\ Len(oplog) < MaxOps
  /\ \/ \E h \in 1..MaxHandles :
          /\ handle' = h
          /\ open_handles' = open_handles \cup {h}
          /\ Log("__enter__", "ok", <<"openS">>)
     \/ /\ Log("__enter__", "LabJackConnectionError", <<"openS">>)
        /\ UNCHANGED <<handle, open_handles>>
  /\ UNCHANGED conn_rest

\* faulty variant: the attribute is reset only when close succeeded
CloseKeepsHandleOnError(op) ==
  \/ /\ open_handles' = open_handles \ {handle}
     /\ handle' = 0
     /\ Log(op, "ok", <<"close">>)
  \/ /\ open_handles' = open_handles
     /\ handle' = handle
     /\ Log(op, "LabJackDisconnectionError", <<"close">>)

\* the body of _disconnect after the check: close on the handle; the finally
\* clause sets the attribute to None whether or not close raised
Close(op) ==
  \/ /\ open_handles' = open_handles \ {handle}
     /\ handle' = 0
     /\ Log(op, "ok", <<"close">>)
  \/ /\ open_handles' = open_handles
     /\ handle' = 0
     /\ Log(op, "LabJackDisconnectionError", <<"close">>)

\* _disconnect
Disconnect ==
  /\ Len(oplog) < MaxOps
  /\ IF CheckConnection(handle)
     THEN /\ Log("_disconnect", "LabJackNoConnectionError", <<>>)
          /\ UNCHANGED <<handle, open_handles>>
     ELSE Close("_disconnect")
  /\ UNCHANGED conn_rest

\* __exit__ (and __del__, which calls it): the no-connection error of the
\* check is swallowed, any other error of _disconnect propagates
Exit ==
  /\ Len(oplog) < MaxOps
  /\ IF CheckConnection(handle)
     THEN /\ Log("__exit__", "ok", <<>>)
          /\ UNCHANGED <<handle, open_handles>>
     ELSE Close("__exit__")
  /\ UNCHANGED conn_rest

\* __del__: it calls __exit__(None, None, None)
Del ==
  /\ Len(oplog) < MaxOps
  /\ IF CheckConnection(handle)
     THEN /\ Log("__del__", "ok", <<>>)
          /\ UNCHANGED <<handle, open_handles>>
     ELSE Close("__del__")
  /\ UNCHANGED conn_rest

\* configure_library / configure_register: the check, then the validation
\* of the arguments, then one link call
Configure(op, call, errclass) ==
  /\ Len(oplog) < MaxOps
  /\ IF CheckConnection(handle)
     THEN Log(op, "LabJackNoConnectionError", <<>>)
     ELSE \/ Log(op, "ValueError", <<>>)
          \/ Log(op, "ok", <<call>>)
          \/ Log(op, errclass, <<call>>)
  /\ UNCHANGED <<handle, open_handles, conn_rest>>

ConfigureLibraryOp ==
  Configure("configure_library", "writeLibraryConfigS",
            "LabJackLibraryConfigurationError")

ConfigureRegisterOp ==
  Configure("configure_register", "eWriteNames",
            "LabJackRegisterConfigurationError")

\* stream_in: the check, then a StreamIn is constructed on the handle, which
\* streams to the end or fails in one of its calls
StreamInOp ==
  /\ Len(oplog) < MaxOps
  /\ IF CheckConnection(handle)
     THEN Log("stream_in", "LabJackNoConnectionError", <<>>)
     ELSE \/ Log("stream_in", "ok",
                 <<"eWriteNames", "eStreamStart", "eStreamRead", "eStreamStop">>)
          \/ Log("stream_in", "LabJackRegisterConfigurationError",
                 <<"eWriteNames">>)
          \/ Log("stream_in", "LabJackStreamReadError",
                 <<"eWriteNames", "eStreamStart">>)
  /\ UNCHANGED <<handle, open_handles, conn_rest>>

ConnNext ==
  \/ Enter
  \/ Disconnect
  \/ Exit
  \/ Del
  \/ ConfigureLibraryOp
  \/ ConfigureRegisterOp
  \/ StreamInOp

SpecConn == ConnInit /\ [][ConnNext]_vars

(* ------------- the device object of LabJack_control ---------------------- *)
\* A LabJackDevice of LabJack_control.py after its constructor, which does
\* not connect.  connect, stream and disconnect are called in any order;
\* each is logged as <<operation, handle before it, result, link calls,
\* close>>, where close tells whether the operation issued ljm.close and
\* whether the handle it closed was open at the link ("open") or had been
\* closed before ("stale").

CtlInit ==
  /\ kind = "Control"
  /\ num_channels = 1
  /\ numReads = 1
  /\ do_trigger = FALSE
  /\ pc = "off"
  /\ step = 1
  /\ calls = <<>>
  /\ ir = 0
  /\ noScans = 0
  /\ readlog = <<>>
  /\ queue = <<>>
  /\ unfinished = 0
  /\ wpc = "none"
  /\ witem = <<>>
  /\ total_a_data = <<>>
  /\ skipped = 0
  /\ pending = NoExc
  /\ err = NoExc
  /\ linkOpen = TRUE
  /\ records = <<>>
  /\ PlanOff
  /\ ThreadsOff
  /\ LoopOff
  /\ ArmOff
  /\ handle = 0
  /\ open_handles = {}
  /\ oplog = <<>>

CtlLog(op, result, linkcalls, close) ==
  oplog' = Append(oplog, <<op, handle, result, linkcalls, close>>)

\* disconnect() with self.handle = h and the link's open handles open_now:
\* ljm.close(h), then the finally clause resets the attribute; before are
\* the link calls the operation has issued already, okresult its result if
\* close succeeds
CtlClose(op, h, open_now, before, okresult) ==
  LET close == IF h \in open_now THEN "open" ELSE "stale" IN
  \/ /\ open_handles' = open_now \ {h}
     /\ handle' = 0
     /\ CtlLog(op, okresult, Append(before, "close"), close)
  \/ /\ open_handles' = open_now
     /\ handle' = 0
     /\ CtlLog(op, "LabJackConnectionError", Append(before, "close"), close)

\* connect(): openS and getHandleInfo in one try; on an error disconnect()
\* is called on whatever handle the attribute holds, then
\* LabJackConnectionError is raised
CtlConnect ==
  /\ Len(oplog) < MaxOps
  /\ \/ \E h \in 1..MaxHandles :
          \/ /\ handle' = h
             /\ open_handles' = open_handles \cup {h}
             /\ CtlLog("connect", "ok", <<"openS", "getHandleInfo">>, "none")
          \/ CtlClose("connect", h, open_handles \cup {h},
                      <<"openS", "getHandleInfo">>, "LabJackConnectionError")
     \/ IF handle = 0
        THEN /\ CtlLog("connect", "LabJackConnectionError", <<"openS">>, "none")
             /\ UNCHANGED <<handle, open_handles>>
        ELSE CtlClose("connect", handle, open_handles, <<"openS">>,
                      "LabJackConnectionError")
  /\ UNCHANGED conn_rest

\* disconnect(): a warning and a normal return without a handle, else close
CtlDisconnect ==
  /\ Len(oplog) < MaxOps
  /\ IF handle = 0
     THEN /\ CtlLog("disconnect", "ok", <<>>, "none")
          /\ UNCHANGED <<handle, open_handles>>
     ELSE CtlClose("disconnect", handle, open_handles, <<>>, "ok")
  /\ UNCHANGED conn_rest

\* stream() when eStreamStop raised: ljm.close(handle) in the handler, then
\* LabJackStreamingError (or the error of the close); self.handle is kept
CtlStopFailed ==
  LET close == IF handle \in open_handles THEN "open" ELSE "stale" IN
  \/ /\ open_handles' = open_handles \ {handle}
     /\ handle' = handle
     /\ CtlLog("stream", "LabJackStreamingError",
               <<"eStreamStart", "eStreamRead", "eStreamStop", "close">>, close)
  \/ /\ UNCHANGED <<handle, open_handles>>
     /\ CtlLog("stream", "LJMError",
               <<"eStreamStart", "eStreamRead", "eStreamStop", "close">>, close)

\* stream(): the check, then the stream to its end, or an error of a call
\* before the stop, which leaves stream() as raised, or a failed stop
CtlStream ==
  /\ Len(oplog) < MaxOps
  /\ IF handle = 0
     THEN /\ CtlLog("stream", "LabJackConnectionError", <<>>, "none")
          /\ UNCHANGED <<handle, open_handles>>
     ELSE \/ /\ CtlLog("stream", "ok",
                       <<"eStreamStart", "eStreamRead", "eStreamStop">>, "none")
             /\ UNCHANGED <<handle, open_handles>>
          \/ /\ CtlLog("stream", "LJMError",
                       <<"eStreamStart", "eStreamRead">>, "none")
             /\ UNCHANGED <<handle, open_handles>>
          \/ CtlStopFailed
  /\ UNCHANGED conn_rest

CtlNext ==
  \/ CtlConnect
  \/ CtlDisconnect
  \/ CtlStream

SpecControl == CtlInit /\ [][CtlNext]_vars

(* ------------------------ properties of the plan ----------------------- *)
Planned == ppc \in {"planned", "configure", "streamed"}
ValidInputs ==
  /\ num_channels >= 1
  /\ duration_s[1] > 0
  /\ sampling_rate_Hz > 0

\* C15: for at least one channel, a positive duration and a positive total
\* rate, the planned total sample count is a multiple of the channel count
\* and equals channel_count * ceil(ceil(rate * duration) / channel_count):
\* it is the least number of whole scans that covers rate * duration.
C15_TotalIsWholeScans ==
  (Planned /\ ValidInputs) =>
    LET want == sampling_rate_Hz * duration_s[1]
        den == duration_s[2]
        total == plan.num_samples
    IN /\ total % num_channels = 0
       /\ total =
            num_channels * CeilDiv(CeilDiv(want, den), num_channels)
       /\ total * den >= want
       /\ (total - num_channels) * den < want

\* a plan whose last scan had to be completed
C15_Witness ==
  /\ Planned
  /\ ValidInputs
  /\ num_channels = MaxChannels
  /\ plan.num_samples > NumSamples(sampling_rate_Hz, duration_s)

\* C16 as stated: for every computed plan the samples of all reads are
\* exactly the planned total, total = scans_per_read * channels * reads.
C16_ReadsAreExactlyPlan ==
  Planned =>
    plan.num_samples = plan.scans_per_read * num_channels * plan.num_reads

\* C16, amended: for every computed plan with a positive scans_per_read the
\* samples of all reads cover the planned total, exceed it by less than one
\* read, and equal it exactly when scans_per_read divides the planned scans
\* per channel.
C16_ReadsCoverPlan ==
  (Planned /\ plan.scans_per_read > 0) =>
    LET asked == plan.scans_per_read * num_channels * plan.num_reads
    IN /\ asked >= plan.num_samples
       /\ asked - plan.num_samples < plan.scans_per_read * num_channels
       /\ (asked = plan.num_samples) <=>
            (plan.num_scans % plan.scans_per_read = 0)

\* a plan from valid inputs whose reads ask for more than the planned total
C16_Witness ==
  /\ Planned
  /\ ValidInputs
  /\ plan.scans_per_read > 0
  /\ plan.scans_per_read * num_channels * plan.num_reads > plan.num_samples

\* C17: for every plan with a positive scans_per_read, the reads cover the
\* planned scans per channel (total / channels) and one read less would not.
C17_LeastReadCount ==
  (Planned /\ plan.scans_per_read > 0) =>
    LET per_channel == plan.num_samples \div num_channels
    IN /\ plan.num_reads * plan.scans_per_read >= per_channel
       /\ (plan.num_reads - 1) * plan.scans_per_read < per_channel

\* a plan with a given scans_per_read that needs a partial last read
C17_Witness ==
  /\ Planned
  /\ ValidInputs
  /\ scans_per_read # <<>>
  /\ plan.num_reads >= 2
  /\ plan.num_reads * plan.scans_per_read > plan.num_scans

\* the inputs of the scenario: 2 channels, 1.0 s, 100000 Hz, no scans_per_read
Scenario ==
  /\ num_channels = 2
  /\ duration_s[1] = duration_s[2]
  /\ sampling_rate_Hz = 100000
  /\ scans_per_read = <<>>

\* C18: planning the scenario succeeds and gives a total of 100000 samples,
\* a rate per channel of 50000, 50000 scans per read and one read.
C18_Scenario ==
  (Scenario /\ ppc # "plan") =>
    /\ Planned
    /\ plan.num_samples = 100000
    /\ plan.scan_rate[1] = 50000 * plan.scan_rate[2]
    /\ plan.scans_per_read = 50000
    /\ plan.num_reads = 1
    /\ numReads = 1

\* the scenario planned by StreamRead, the constructor gone on to the device
C18_Witness ==
  /\ Scenario
  /\ kind = "StreamRead"
  /\ ppc = "configure"
  /\ plan.num_scans = 50000

\* C19: without a scans_per_read, for every valid channel list, duration and
\* rate the planning gives one read whose scans_per_read covers all planned
\* scans per channel.
C19_NoHintOneRead ==
  (ValidInputs /\ scans_per_read = <<>> /\ ppc # "plan") =>
    /\ Planned
    /\ plan.num_reads = 1
    /\ plan.scans_per_read >= plan.num_scans

\* the inputs the planning should refuse
InvalidInputs ==
  IF num_channels < 1 \/ duration_s[1] <= 0 \/ sampling_rate_Hz <= 0 THEN TRUE
  ELSE ResolvedScansPerRead(sampling_rate_Hz, num_channels, duration_s,
                            scans_per_read) <= 0

\* C20: with fewer than one channel, a duration or a rate that is not
\* positive, or a resolved scans_per_read that is not positive, the planning
\* fails and the constructor makes no device call.
C20_InvalidPlanFails ==
  (InvalidInputs /\ ppc # "plan") => ppc = "failed"

\* C14: at most one stream operation is active on the device handle at any
\* time, between its start and its stop, also with two threads in stream_in
\* on the same LabJackDevice.
C14_OneActiveStream == Cardinality(ActiveStreams) <= 1

(* --------------------- conversion and reassembly ----------------------- *)
\* the raw samples of all successful reads, in the order they were returned
RECURSIVE Flat(_)
Flat(log) ==
  IF log = <<>> THEN <<>> ELSE Head(log) \o Flat(Tail(log))

\* the missing markers of a buffer
CountNaN(d) == Cardinality({i \in 1..Len(d) : d[i] = NaN})

\* the buffer holds the raw samples position by position, each sentinel as a
\* missing marker and every other sample as it was read
ConvertedInPlace(raw, buf) ==
  /\ Len(buf) = Len(raw)
  /\ \A i \in 1..Len(raw) :
       buf[i] = (IF raw[i] = Sentinel THEN NaN ELSE raw[i])

\* C24: in StreamIn, after a successful stream every raw sample equal to
\* -9999.0 is a missing marker at the same position of the accumulated
\* buffer, every other sample is unchanged, and the skipped count is the
\* number of sentinels read, which is the number of missing markers.
C24_SentinelsBecomeMissing ==
  (kind = "StreamIn" /\ pc \in {"reassemble", "done"}) =>
    /\ ConvertedInPlace(Flat(readlog), total_a_data)
    /\ skipped = CountSentinel(Flat(readlog))
    /\ skipped = CountNaN(total_a_data)

\* a successful pipelined stream with a sentinel that is not the first
\* sample of its read
C24_Witness ==
  /\ kind = "StreamIn"
  /\ pc = "done"
  /\ num_channels = MaxChannels
  /\ \E r \in 1..Len(readlog) :
       readlog[r][1] # Sentinel /\ readlog[r][MaxChannels] = Sentinel
  /\ skipped >= 1

\* C25: in StreamRead, the conversion of every read turns exactly the
\* samples equal to -9999.0 into missing markers and leaves every other
\* sample of the read, the first one included, as it was read.
C25_ListConversion ==
  kind = "StreamRead" => ConvertedInPlace(Flat(readlog), total_a_data)

\* a flat sequence built by interleaving per-channel sequences in channel
\* order
RECURSIVE Interleave(_)
Interleave(chs) ==
  IF Len(chs) = 0 \/ chs[1] = <<>> THEN <<>>
  ELSE [c \in 1..Len(chs) |-> chs[c][1]]
       \o Interleave([c \in 1..Len(chs) |-> Tail(chs[c])])

\* C26: reassembly inverts interleaving: sample i of the flat sequence
\* (counted from 0) is in the record of channel i mod N at scan index
\* i div N, every channel has the same number of scans, and interleaving the
\* records in channel order gives the flat sequence back.
C26_ReassemblyInvertsInterleaving ==
  (kind \in Finally /\ pc = "done") =>
    /\ Len(records) = num_channels
    /\ \A c \in 1..num_channels :
         Len(records[c]) * num_channels = Len(total_a_data)
    /\ \A i \in 0..(Len(total_a_data) - 1) :
         records[(i % num_channels) + 1][(i \div num_channels) + 1]
           = total_a_data[i + 1]
    /\ Interleave(records) = total_a_data

\* two channels, two scans, the channels' records differ
C26_Witness ==
  /\ kind \in Finally
  /\ pc = "done"
  /\ num_channels = MaxChannels
  /\ Len(total_a_data) = MaxChannels * MaxReads
  /\ records[1] # records[MaxChannels]

\* C27: after a successful stream every channel record has as many values
\* and timestamps as the plan has scans per channel, whatever the reads
\* delivered.  The records are cut from the accumulator, so each has
\* scans_read entries.
C27_RecordLengthIsPlanned ==
  (ppc = "streamed" /\ ValidInputs) => scans_read = plan.num_scans

(* ---------------------- properties of the arming ----------------------- *)
\* the successful library writes of a key, and the value in force
LibWrites(key) ==
  {i \in 1..Len(alog) : /\ alog[i][1] = "writeLibraryConfigS"
                        /\ alog[i][3] = "ok"
                        /\ DictHas(alog[i][2], key)}
LibInForce(key) ==
  DictGet(alog[CHOOSE i \in LibWrites(key) :
                 \A j \in LibWrites(key) : j <= i][2], key)

\* the register writes of a name, in the order of the calls
RegWrites(name) ==
  {i \in 1..Len(alog) : /\ alog[i][1] \in {"eWriteNames", "eWriteName"}
                        /\ DictHas(alog[i][2], name)}
RegValue(i, name) == DictGet(alog[i][2], name)

\* C21: for a triggered StreamIn or StreamRead the value written to the
\* library's read timeout, STREAM_RECEIVE_TIMEOUT_MS, is the trigger timeout
\* in milliseconds: 0 for None and 1000 * t for t > 0 seconds.
C21_TimeoutInMilliseconds ==
  (kind \in Finally /\ do_trigger /\ apc = "started") =>
    /\ LibWrites("STREAM_RECEIVE_TIMEOUT_MS") # {}
    /\ LET w == LibInForce("STREAM_RECEIVE_TIMEOUT_MS")
       IN IF trigger_timeout_s = <<>>
          THEN w[1] = 0
          ELSE w[1] * trigger_timeout_s[2] = 1000 * trigger_timeout_s[1] * w[2]

\* C22 as stated: a stream requested with trigger timeout 0 is accepted and
\* configured like timeout None.
C22_ZeroTimeoutAccepted ==
  (/\ kind \in Finally
   /\ trigger_timeout_s # <<>>
   /\ trigger_timeout_s[1] = 0
   /\ apc # "check") =>
    /\ err = NoExc \/ ExcClass(err) # "ValueError"
    /\ trigger_timeout # <<>>
    /\ trigger_timeout[1] = 0

\* C22, amended: StreamIn and StreamRead refuse a timeout of 0, like a
\* negative one, with ValueError before any device call; only None means
\* wait indefinitely, it is stored as 0 and 0 is what arming writes; a
\* positive timeout is stored as given.
C22_OnlyNoneWaitsIndefinitely ==
  (kind \in Finally /\ apc # "check") =>
    IF trigger_timeout_s # <<>> /\ trigger_timeout_s[1] <= 0
    THEN /\ apc = "failed"
         /\ err # NoExc
         /\ ExcClass(err) = "ValueError"
         /\ alog = <<>>
         /\ trigger_timeout = <<>>
    ELSE /\ trigger_timeout # <<>>
         /\ (trigger_timeout[1] = 0) <=> (trigger_timeout_s = <<>>)
         /\ trigger_timeout_s # <<>> => trigger_timeout = trigger_timeout_s
         /\ LibWrites("STREAM_RECEIVE_TIMEOUT_MS") # {} =>
              LibInForce("STREAM_RECEIVE_TIMEOUT_MS") = trigger_timeout

\* a request with timeout 0 refused before the first device call
C22_Witness ==
  /\ kind = "StreamIn"
  /\ do_trigger
  /\ trigger_timeout_s # <<>>
  /\ trigger_timeout_s[1] = 0
  /\ apc = "failed"
  /\ alog = <<>>

\* the calls of the arming sequence of StreamIn / StreamRead in the log
Disables(i) ==
  /\ alog[i][1] = "eWriteNames"
  /\ DictHas(alog[i][2], "EF_ENABLE")
  /\ DictGet(alog[i][2], "EF_ENABLE") = 0
Enables(i) ==
  /\ alog[i][1] = "eWriteNames"
  /\ DictHas(alog[i][2], "EF_ENABLE")
  /\ DictGet(alog[i][2], "EF_ENABLE") = 1
WritesTriggerRegisters(i) ==
  /\ alog[i][1] = "eWriteNames"
  /\ ~DictHas(alog[i][2], "STREAM_CLOCK_SOURCE")
  /\ \/ DictHas(alog[i][2], "STREAM_TRIGGER_INDEX")
     \/ DictHas(alog[i][2], "EF_INDEX")
     \/ DictHas(alog[i][2], "EF_CONFIG_A")

\* C28: in _configure_trigger of StreamIn (and StreamRead) the extended
\* feature of the trigger channel is disabled before the trigger index and
\* the EF index / config registers are written, and it is enabled only after
\* that write succeeded; a call that failed is the last one, and no call of
\* the sequence is issued twice.
C28_DisableWriteEnable ==
  kind \in Finally =>
    /\ \A j \in 1..Len(alog) :
         WritesTriggerRegisters(j) =>
           /\ \E i \in 1..(j - 1) : Disables(i) /\ alog[i][3] = "ok"
           /\ \A i \in 1..j : ~Enables(i)
    /\ \A k \in 1..Len(alog) :
         Enables(k) =>
           \E j \in 1..(k - 1) : WritesTriggerRegisters(j) /\ alog[j][3] = "ok"
    /\ \A i \in 1..Len(alog) : alog[i][3] # "ok" => i = Len(alog)
    /\ Cardinality({i \in 1..Len(alog) : Disables(i)}) <= 1
    /\ Cardinality({i \in 1..Len(alog) : WritesTriggerRegisters(i)}) <= 1
    /\ Cardinality({i \in 1..Len(alog) : Enables(i)}) <= 1
    /\ (do_trigger /\ apc \in {"start", "started"}) =>
         \E k \in 1..Len(alog) : Enables(k) /\ alog[k][3] = "ok"

\* the write of the trigger registers failed: the run ended there, the
\* extended feature left disabled
C28_Witness ==
  /\ kind = "StreamIn"
  /\ do_trigger
  /\ apc = "failed"
  /\ alog # <<>>
  /\ WritesTriggerRegisters(Len(alog))
  /\ alog[Len(alog)][3] = "ljm"

\* the EF index the claim gives for a mode and an edge
ExpectedIndex ==
  CASE trigger_mode = "FrequencyIn" ->
         ModeValue("FrequencyIn") + (IF trigger_edge = "Rising" THEN 0 ELSE 1)
    [] trigger_mode = "PulseWidthIn" -> ModeValue("PulseWidthIn")
    [] trigger_mode = "ConditionalReset" -> ModeValue("ConditionalReset")

\* C29: once a trigger is armed, by any of the three drivers, the last EF
\* index written is the one of the selected mode: base + 0 for Rising and
\* base + 1 for Falling in FrequencyIn, the fixed index in PulseWidthIn and
\* ConditionalReset; PulseWidthIn issues the same calls with the same values
\* for both edges; EF_CONFIG_A is written exactly in ConditionalReset, with
\* the value of the edge.
C29_RegistersPerMode ==
  (do_trigger /\ apc \in {"start", "started"}) =>
    /\ RegWrites("EF_INDEX") # {}
    /\ LET last == CHOOSE i \in RegWrites("EF_INDEX") :
                     \A j \in RegWrites("EF_INDEX") : j <= i
       IN RegValue(last, "EF_INDEX") = ExpectedIndex
    /\ (RegWrites("EF_CONFIG_A") # {}) <=> (trigger_mode = "ConditionalReset")
    /\ \A i \in RegWrites("EF_CONFIG_A") :
         RegValue(i, "EF_CONFIG_A") = EdgeValue(trigger_edge)
    /\ trigger_mode = "PulseWidthIn" =>
         /\ ArmCalls(kind, TRUE, trigger_mode, "Rising", trigger_timeout)
              = ArmCalls(kind, TRUE, trigger_mode, "Falling", trigger_timeout)
         /\ \A i \in 1..(astep - 1) :
              alog[i][2] = ArmCalls(kind, TRUE, trigger_mode, "Rising",
                                    trigger_timeout)[i][2]

\* LabJack_control armed for FrequencyIn on the falling edge
C29_Witness ==
  /\ kind = "Control"
  /\ do_trigger
  /\ trigger_mode = "FrequencyIn"
  /\ trigger_edge = "Falling"
  /\ apc = "started"
  /\ Cardinality(RegWrites("EF_INDEX")) >= 2

\* C30 as stated: whenever a triggered stream is armed, the scan-return
\* policy in force at eStreamStart is all-or-nothing.
C30_AllOrNoneInForce ==
  (do_trigger /\ apc = "started") =>
    /\ LibWrites("STREAM_SCANS_RETURN") # {}
    /\ LibInForce("STREAM_SCANS_RETURN") = "STREAM_SCANS_RETURN_ALL_OR_NONE"

\* eStreamStart has been issued
StartIssued == \E i \in 1..Len(alog) : alog[i][1] = "eStreamStart"

\* C30, amended: whenever eStreamStart is issued for a triggered stream a
\* scan-return policy has been written: all-or-nothing by LabJack_control,
\* STREAM_SCANS_RETURN_ALL (a read returns when all its scans arrived or the
\* receive timeout expired) by StreamIn and StreamRead; without a trigger no
\* policy is written.
C30_PolicyPerDriver ==
  /\ (do_trigger /\ StartIssued) =>
       /\ LibWrites("STREAM_SCANS_RETURN") # {}
       /\ LibInForce("STREAM_SCANS_RETURN") =
            (IF kind = "Control" THEN "STREAM_SCANS_RETURN_ALL_OR_NONE"
             ELSE "STREAM_SCANS_RETURN_ALL")
  /\ ~do_trigger => LibWrites("STREAM_SCANS_RETURN") = {}

\* a triggered StreamRead started under STREAM_SCANS_RETURN_ALL
C30_Witness ==
  /\ kind = "StreamRead"
  /\ do_trigger
  /\ apc = "started"
  /\ LibWrites("STREAM_SCANS_RETURN") # {}

\* the registers of the trigger channel's extended feature, and the names a
\* dict writes
EFNames == {"EF_ENABLE", "EF_INDEX", "EF_CONFIG_A"}
Names(d) == {d[j][1] : j \in 1..Len(d)}

\* C32: in a run with do_trigger false, of any of the three drivers, every
\* write of STREAM_TRIGGER_INDEX writes 0 and one has succeeded when
\* eStreamStart is issued; no register of the extended feature is written
\* and no library setting is written.
C32_UntriggeredBaselineOnly ==
  ~do_trigger =>
    /\ \A i \in 1..Len(alog) :
         /\ alog[i][1] # "writeLibraryConfigS"
         /\ Names(alog[i][2]) \cap EFNames = {}
         /\ DictHas(alog[i][2], "STREAM_TRIGGER_INDEX") =>
              RegValue(i, "STREAM_TRIGGER_INDEX") = 0
    /\ StartIssued =>
         \E i \in RegWrites("STREAM_TRIGGER_INDEX") : alog[i][3] = "ok"

\* LabJack_control started without a trigger
C32_Witness ==
  /\ kind = "Control"
  /\ ~do_trigger
  /\ apc = "started"
  /\ RegWrites("STREAM_TRIGGER_INDEX") # {}

\* the register writes of _configure_trigger and the one of _configure
ArmingWrites ==
  {i \in 1..Len(alog) : /\ alog[i][1] = "eWriteNames"
                        /\ ~DictHas(alog[i][2], "STREAM_CLOCK_SOURCE")}
BaselineWrites ==
  {i \in 1..Len(alog) : /\ alog[i][1] = "eWriteNames"
                        /\ DictHas(alog[i][2], "STREAM_CLOCK_SOURCE")}
AnalogNames == {"AIN_ALL_NEGATIVE_CH", "AIN_ALL_RANGE"}

\* C39 as stated: the register writes of _configure_trigger in StreamIn and
\* StreamRead write the stream trigger index and the registers of the
\* extended feature, and nothing else.
C39_ArmingWritesTriggerOnly ==
  (kind \in Finally /\ do_trigger) =>
    \A i \in ArmingWrites :
      Names(alog[i][2]) \subseteq ({"STREAM_TRIGGER_INDEX"} \cup EFNames)

\* C39, amended: each register write of _configure_trigger also writes
\* AIN_ALL_NEGATIVE_CH and AIN_ALL_RANGE, with the values the baseline
\* write of _configure has written before it, and no further name; the
\* values of the two registers are the same before and after arming.
C39_ArmingRewritesAnalogDefaults ==
  (kind \in Finally /\ do_trigger) =>
    \A i \in ArmingWrites :
      /\ Names(alog[i][2]) \subseteq
           ({"STREAM_TRIGGER_INDEX"} \cup EFNames \cup AnalogNames)
      /\ AnalogNames \subseteq Names(alog[i][2])
      /\ \E j \in BaselineWrites :
           /\ j < i
           /\ alog[j][3] = "ok"
           /\ \A n \in AnalogNames : RegValue(i, n) = RegValue(j, n)

\* a StreamIn armed and started: the three register writes of the arming
C39_Witness ==
  /\ kind = "StreamIn"
  /\ do_trigger
  /\ apc = "started"
  /\ Cardinality(ArmingWrites) = Len(ConfigureTriggerSeq) - 2
  /\ \A i \in ArmingWrites : alog[i][3] = "ok"

\* C38: the library settings in force when a stream without a trigger is
\* started are those of a process in which no stream operation ran before:
\* no read timeout and no scan-return policy written by an earlier
\* operation is in force at its eStreamStart.
C38_LibraryIndependentOfHistory ==
  (SecondStarted /\ ~do_trigger /\ apc = "started") =>
    /\ LibWrites("STREAM_SCANS_RETURN") = {}
    /\ LibWrites("STREAM_RECEIVE_TIMEOUT_MS") = {}

(* -------------------- properties of the connection --------------------- *)
CheckedOps == {"stream_in", "configure_register", "configure_library",
               "_disconnect"}

\* C23: after any sequence of connects and disconnects, each of stream_in,
\* configure_register, configure_library and _disconnect attempted while the
\* object holds no handle fails with LabJackNoConnectionError and issues no
\* link call; with a handle none of them fails with that error.
C23_NoConnectionNoCall ==
  \A i \in 1..Len(oplog) :
    oplog[i][1] \in CheckedOps =>
      /\ oplog[i][2] = 0 =>
           (oplog[i][3] = "LabJackNoConnectionError" /\ oplog[i][4] = <<>>)
      /\ oplog[i][3] = "LabJackNoConnectionError" => oplog[i][2] = 0

\* a disconnect, then a stream and a second disconnect refused
C23_Witness ==
  /\ Len(oplog) = MaxOps
  /\ oplog[1][1] = "_disconnect" /\ oplog[1][3] = "ok"
  /\ oplog[MaxOps - 1][1] = "stream_in"
  /\ oplog[MaxOps - 1][3] = "LabJackNoConnectionError"
  /\ oplog[MaxOps][1] = "_disconnect"
  /\ oplog[MaxOps][3] = "LabJackNoConnectionError"
  /\ handle = 0
  /\ open_handles = {}

\* successful opens, the constructor's included, and close calls
Opens ==
  1 + Cardinality({i \in 1..Len(oplog) :
                     oplog[i][1] = "__enter__" /\ oplog[i][3] = "ok"})
Closes == Cardinality({i \in 1..Len(oplog) : oplog[i][4] = <<"close">>})

\* `with LabJackDevice(...) as device:` has run and its block has exited:
\* __enter__ on the constructed object, public operations, __exit__
WithBlockExited ==
  /\ Len(oplog) >= 2
  /\ oplog[1][1] = "__enter__"
  /\ oplog[1][3] = "ok"
  /\ oplog[Len(oplog)][1] = "__exit__"
  /\ \A i \in 2..(Len(oplog) - 1) :
       oplog[i][1] \in {"configure_library", "configure_register", "stream_in"}

\* C35: after the block of a with statement on a new LabJackDevice has
\* exited, as many close calls as successful opens have been issued and no
\* handle is left open.
C35_OpenCloseBalanced ==
  WithBlockExited => (Opens = Closes /\ open_handles = {})

\* C36: after _disconnect was attempted the handle attribute is None,
\* whether close succeeded, failed or was not issued; every __exit__ and
\* __del__ that follows without another call in between returns normally
\* and issues no link call; between two close calls there is a successful
\* open.
C36_DisconnectOnce ==
  /\ \A i \in 1..Len(oplog) :
       oplog[i][1] = "_disconnect" =>
         /\ (IF i < Len(oplog) THEN oplog[i + 1][2] ELSE handle) = 0
         /\ \A j \in (i + 1)..Len(oplog) :
              (\A k \in (i + 1)..j : oplog[k][1] \in {"__exit__", "__del__"}) =>
                (oplog[j][3] = "ok" /\ oplog[j][4] = <<>>)
  /\ \A i \in 1..Len(oplog) : \A j \in (i + 1)..Len(oplog) :
       (oplog[i][4] = <<"close">> /\ oplog[j][4] = <<"close">>) =>
         \E k \in (i + 1)..(j - 1) :
           oplog[k][1] = "__enter__" /\ oplog[k][3] = "ok"

\* a _disconnect whose close failed, then __exit__ and __del__
C36_Witness ==
  /\ Len(oplog) = MaxOps
  /\ oplog[MaxOps - 2][1] = "_disconnect"
  /\ oplog[MaxOps - 2][3] = "LabJackDisconnectionError"
  /\ oplog[MaxOps - 1][1] = "__exit__"
  /\ oplog[MaxOps][1] = "__del__"
  /\ oplog[MaxOps][3] = "ok"
  /\ handle = 0
  /\ open_handles # {}

\* C37: in LabJack_control's LabJackDevice, over any sequence of connect,
\* stream and disconnect calls, no close is issued on a handle that was
\* closed before, and self.handle is not None only while its handle is open
\* at the link.
C37_ControlCloseOnce ==
  /\ handle # 0 => handle \in open_handles
  /\ \A i \in 1..Len(oplog) : oplog[i][5] # "stale"

(* ------------------- the end of a StreamIn operation ------------------- *)
StopIssued == \E i \in 1..Len(calls) : calls[i][1] = "eStreamStop"

\* C31: in every calling context a call of StreamIn._stream_in returns, and
\* it returns when the coroutine _run_stream_in has finished: both from a
\* thread that runs no event loop and from the thread of a running loop.
C31_StreamInReturns ==
  (spc = "call") ~> (spc = "returned" /\ coro = "finished")

\* C33: once eStreamStart has succeeded in StreamIn, and with every run of
\* no-scans responses finite, under fair scheduling of the loop thread and
\* of the worker the operation eventually has issued eStreamStop and has
\* ended, with the records set if it succeeded and an exception if not; it
\* does not stay in queue.join() or in the join of the worker.
C33_StreamTerminates ==
  (kind = "StreamIn" /\ pc = "read") ~>
    (/\ pc \in {"done", "failed"}
     /\ StopIssued
     /\ pc = "done" => (records # <<>> /\ err = NoExc)
     /\ pc = "failed" => (err # NoExc /\ records = <<>>))

\* a StreamIn that waited through a no-scans response and ended with its
\* records, the worker gone
C33_Witness ==
  /\ kind = "StreamIn"
  /\ pc = "done"
  /\ noScans > 0
  /\ ir = numReads
  /\ numReads > 1
  /\ StopIssued
  /\ wpc = "exited"
  /\ records # <<>>

\* C34: whenever _run_stream_in has ended, by returning or by raising after
\* a failed read or stop, the worker thread it started has taken the exit
\* signal and has left its loop.
C34_WorkerEndsWithOperation ==
  (kind = "StreamIn" /\ pc \in {"done", "failed"} /\ wpc # "none") =>
    wpc = "exited"

====
